---- MODULE Spec2Model ----
(***************************************************************************)
(* A model of go-coder's edit pipeline and feedback loop.                  *)
(*                                                                         *)
(*   SpecLoop    feedback.Run and feedback.Verify (internal/feedback)      *)
(*   SpecMatch   the three matcher stages as functions (internal/editor)   *)
(*   SpecApply   TextEditor.Apply, called once and once again              *)
(*   SpecRouter  Router.ApplyAll over a list of edits (internal/editformat)*)
(*   SpecParse   editformat.Parse over bounded responses                   *)
(*   SpecGit     HandleDirty, AutoCommit and Undo of internal/git          *)
(*   SpecCoder   Runner.Run of internal/coder, around feedback.Run         *)
(*   SpecMessage git.GenerateMessage over bounded prompts                  *)
(*   SpecSend    llm.Client.SendPrompt and the consumer of its channels    *)
(*   SpecExtract repomap.Extractor.ExtractAll and its symbol cache         *)
(*   SpecRender  repomap.Render over bounded rankings and budgets          *)
(*   SpecGraph   repomap.BuildGraph over bounded symbol lists              *)
(*   SpecRank    repomap.Rank called twice on one input                    *)
(*   SpecFormat  feedback.FormatErrors over bounded compile errors         *)
(*   SpecScan    the worker pool of ScanDir                                *)
(*                                                                         *)
(* File contents and search texts are sequences of one-character strings.  *)
(*                                                                         *)
(* Every specification initialises all variables; the variables of the     *)
(* subsystems it does not exercise stay at their idle values.              *)
(***************************************************************************)
EXTENDS Integers, Sequences, FiniteSets, TLC

VARIABLES
    \* ---- feedback.Run / feedback.Verify --------------------------------
    cfgMaxRetries,  \* LoopConfig.MaxRetries as configured by the caller
    testCmd,        \* VerifyConfig.TestCmd: "" or a command
    initialFiles,   \* the initialFiles argument of Run
    ctxDone,        \* the caller's context has been cancelled
    pc,             \* position of Run (and of the Verify pass it is in)
    site,           \* which call of Verify is running: "initial" or "retry"
    i,              \* the loop variable of Run's retry loop
    maxRetries,     \* Run's local maxRetries
    vr,             \* the VerifyResult of the current / last Verify pass
    result,         \* the *LoopResult Run builds and returns
    err,            \* the error Run returns ("nil" while running / on success)
    \* history of the run, not read by the code
    cmdLog,         \* commands executed by the current Verify pass, in order
    retryCalls,     \* number of invocations of retryFn
    verifyHist,     \* Success() of every completed Verify pass, in order
    cancelAt,       \* pc at which the context was cancelled ("never" if not)
    firstSeen,      \* every path handed to or returned into Run, once each,
                    \* in the order of its first appearance
    \* ---- the matcher stages, run as functions ---------------------------
    mContent,       \* the content argument
    mSearch,        \* the search argument
    mExact,         \* result of exactMatch ("notrun" before the call)
    mWs,            \* result of whitespaceNormalizedMatch
    mFuzzy,         \* result of fuzzyMatch
    mFind,          \* result of findMatch
    \* ---- the workspace and TextEditor ------------------------------------
    fs,             \* path -> content of the file, or NoFile
    temps,          \* temp files present in the workspace directory
    fuzzyThreshold, \* TextEditor.FuzzyThreshold, in percent
    edit,           \* the Edit of the last Apply call
    pre,            \* content of the edit's target before the last Apply call
    res,            \* what the last Apply call returned
    calls,          \* number of Apply calls made (SpecApply)
    \* ---- Router.ApplyAll --------------------------------------------------
    rpc,            \* position of ApplyAll
    nEdits,         \* len(edits)
    idx,            \* number of edits the range loop has taken so far
    applied,        \* RouteResult.Applied, each entry with the edit's index
    errors,         \* RouteResult.Errors, each entry with the edit's index
    \* ---- editformat.Parse ------------------------------------------------
    serEdits,       \* the edits the response was serialized from (SpecRoundTrip)
    respLines,      \* strings.Split(response, "\n")
    ppc,            \* position of Parse
    li,             \* Parse's line index i
    searchIdx,      \* index of the SEARCH marker of the open block
    filePath,       \* path extracted for the open block
    searchText,     \* the searchText builder, as the lines written to it
    replaceText,    \* the replaceText builder, as the lines written to it
    reasoning,      \* the reasoning builder, as the lines written to it
    parseResult,    \* the *ParseResult Parse builds
    parseRet,       \* what Parse returned: has a result, and the error
    \* ---- internal/git: Repo ----------------------------------------------
    repo,           \* the repository: commits up to HEAD, index, worktree
    gitCfg,         \* Repo.cfg: AutoCommit and DirtyCommit
    gitLast,        \* the last Repo call: its name, its error, the
                    \* repository before it
    \* ---- coder.Runner.Run ------------------------------------------------
    deps,           \* Runner.deps: NoGit, the LLM in use, MaxRetries, TestCmd
    runPrompt,      \* the prompt argument of Run
    isRepo,         \* the working directory is a git repository
    gitRepo,        \* Run's gitRepo is not nil
    cpc,            \* position of Run
    cres,           \* the *RunResult Run builds and returns
    cerr,           \* the error Run returns
    responseText,   \* the last response taken from generate
    \* history of the run, not read by the code
    events,         \* "save" (dirty commit made), "llm failed", "parse",
                    \* "edit" (edits written), "auto" (auto-commit made)
    repo0,          \* the repository as Run found it
    \* ---- git.GenerateMessage -------------------------------------------
    genMsg,         \* a call of GenerateMessage: its arguments and result
    \* ---- llm.Client.SendPrompt and its consumer -------------------------
    sp,             \* position of the goroutine SendPrompt starts
    attempt,        \* the loop variable of sendWithRetry
    sendErr,        \* the error sendWithRetry returns
    response,       \* the StreamResponse being built
    streamLeft,     \* text events the Bedrock stream still holds
    tokenCh,        \* the token channel: buffered tokens, closed or not
    resultCh,       \* the result channel
    consumerPc,     \* position of the consumer (Runner.generate)
    resp,           \* what the consumer received from the result channel
    sendCtxDone,    \* the context given to SendPrompt has been cancelled
    \* history of the call, not read by the code
    outcomes,       \* the outcome of every ConverseStream request so far
    delays,         \* the backoff waits that elapsed, in seconds
    resultSent,     \* number of values sent on the result channel
    drained,        \* number of tokens the consumer received
    chanPanic,      \* a send or close hit a closed channel
    \* ---- repomap.Extractor ----------------------------------------------
    disk,           \* path -> the file: modification time, content, readable
    symCache,       \* Extractor.cache: path -> entry, or no entry
    extractStats,   \* Extractor.stats
    walkPc,         \* position of ExtractAll
    walkTodo,       \* files filepath.Walk has still to visit
    allSymbols,     \* the symbols ExtractAll has collected, file by file
    \* history of the walk, not read by the code
    walkLog,        \* path -> what the walk did with the file
    \* ---- repomap.Render -------------------------------------------------
    rendering,      \* a call of Render: its arguments and its result
    \* ---- repomap.BuildGraph ---------------------------------------------
    graphing,       \* a call of BuildGraph: its argument and its result
    \* ---- repomap.Rank ---------------------------------------------------
    ranking,        \* calls of Rank on one input: the input and the results
    \* ---- feedback.FormatErrors ------------------------------------------
    formatting,     \* a call of FormatErrors: its arguments, the directory
                    \* the process runs in, and the files it read
    \* ---- ScanDir and its worker pool ------------------------------------
    scanPaths,      \* paths, the files the walk collected
    concurrency,    \* the number of workers
    jobsCh,         \* the jobs channel
    resultsCh,      \* the results channel
    wg,             \* the counter of the WaitGroup
    scanPc,         \* position of ScanDir
    scanTodo,       \* paths still to be sent as jobs
    wpc,            \* position of every worker
    holding,        \* the path every worker is parsing
    closerPc,       \* position of the goroutine that closes results
    scanFiles,      \* the paths ScanDir has entered in result.Files
    \* history of the scan, not read by the code
    parsedBy,       \* path -> the workers that parsed it, in order
    consumed,       \* the results ScanDir received, in order
    scanPanic       \* a send or close hit a closed channel

loopVars == <<cfgMaxRetries, testCmd, initialFiles, ctxDone, pc, site, i,
              maxRetries, vr, result, err, cmdLog, retryCalls, verifyHist,
              cancelAt, firstSeen>>

matchVars == <<mContent, mSearch, mExact, mWs, mFuzzy, mFind>>

editVars == <<fs, temps, fuzzyThreshold, edit, pre, res, calls>>

routerVars == <<rpc, nEdits, idx, applied, errors>>

parseVars == <<serEdits, respLines, ppc, li, searchIdx, filePath, searchText,
               replaceText, reasoning, parseResult, parseRet>>

gitVars == <<repo, gitCfg, gitLast>>

\* the subsystems modelled after the edit engine
coderVars == <<deps, runPrompt, isRepo, gitRepo, cpc, cres, cerr, responseText,
               events, repo0>>

\* the subsystems above
baseVars == <<loopVars, matchVars, editVars, routerVars, parseVars, gitVars,
              coderVars>>

\* the units checked on their own, one variable each
sendVars == <<sp, attempt, sendErr, response, streamLeft, tokenCh, resultCh, consumerPc, resp, sendCtxDone, outcomes, delays, resultSent, drained, chanPanic>>

extractVars == <<disk, symCache, extractStats, walkPc, walkTodo, allSymbols, walkLog>>

scanVars == <<scanPaths, concurrency, jobsCh, resultsCh, wg, scanPc, scanTodo, wpc, holding, closerPc, scanFiles, parsedBy, consumed, scanPanic>>

unitVars == <<genMsg, sendVars, extractVars, rendering, graphing, ranking, formatting, scanVars>>

\* every unit but those of keep stays as it is
UnitsUnchanged(keep) ==
    /\ IF "genMsg" \in keep THEN TRUE ELSE UNCHANGED genMsg
    /\ IF "send" \in keep THEN TRUE ELSE UNCHANGED sendVars
    /\ IF "extract" \in keep THEN TRUE ELSE UNCHANGED extractVars
    /\ IF "rendering" \in keep THEN TRUE ELSE UNCHANGED rendering
    /\ IF "graphing" \in keep THEN TRUE ELSE UNCHANGED graphing
    /\ IF "ranking" \in keep THEN TRUE ELSE UNCHANGED ranking
    /\ IF "formatting" \in keep THEN TRUE ELSE UNCHANGED formatting
    /\ IF "scan" \in keep THEN TRUE ELSE UNCHANGED scanVars

laterVars == <<parseVars, gitVars, coderVars, unitVars>>

vars == <<loopVars, matchVars, editVars, routerVars, laterVars>>

\* what the steps of feedback.Run leave alone
notLoopVars == <<matchVars, editVars, routerVars, laterVars>>

----------------------------------------------------------------------------
(* Bounds of the model *)

\* largest MaxRetries a caller configures
MaxCfgRetries == 2
\* longest file list handed to Run or returned by one retryFn call
MaxFileList == 2

(* Program constants *)

\* loop.go: const defaultMaxRetries = 3
defaultMaxRetries == 3

FileNames == {"a.go", "b.txt"}

\* what a command may print (combined stdout+stderr): nothing or something
Outputs == {"", "out"}

SeqsUpTo(S, n) == UNION {[1..k -> S] : k \in 0..n}

Range(s) == {s[k] : k \in 1..Len(s)}

\* the elements of s, each kept at its first occurrence only
FirstSeen(s) ==
    LET keep == {k \in 1..Len(s) : \A j \in 1..(k - 1) : s[j] # s[k]}
        Pick[k \in 0..Len(s)] ==
            IF k = 0 THEN <<>>
            ELSE IF k \in keep THEN Append(Pick[k - 1], s[k]) ELSE Pick[k - 1]
    IN Pick[Len(s)]

----------------------------------------------------------------------------
(* internal/feedback: Verify *)

\* VerifyResult.Success
Success(r) == r.BuildOK /\ r.VetOK /\ r.TestOK

\* the zero VerifyResult with TestOK preset, as Verify starts with
NewVerifyResult ==
    [BuildOK |-> FALSE, VetOK |-> FALSE, TestOK |-> TRUE,
     BuildOut |-> "", VetOut |-> "", TestOutput |-> ""]

\* runCommand under exec.CommandContext: once the context is done the
\* command is not started, or is killed, and runCommand returns an error.
\* (A cancellation too late to kill the process is one that happens after
\* the command, i.e. at the next position.)
CmdOutcomes == {o \in [ok : BOOLEAN, out : Outputs] : ctxDone => ~o.ok}

\* VerifyBuild without the early return: vet runs after a failed build
VerifyBuildNoSkip ==
    /\ pc = "build"
    /\ \E o \in CmdOutcomes :
         vr' = [NewVerifyResult EXCEPT !.BuildOut = o.out, !.BuildOK = o.ok]
    /\ pc' = "vet"
    /\ cmdLog' = <<"build">>
    /\ UNCHANGED notLoopVars
    /\ UNCHANGED <<cfgMaxRetries, testCmd, initialFiles, ctxDone, site, i,
                   maxRetries, result, err, retryCalls, verifyHist, cancelAt,
                   firstSeen>>

\* Verify, first part: defaults, go build, early return on build failure
VerifyBuild ==
    /\ pc = "build"
    /\ \E o \in CmdOutcomes :
         /\ vr' = [NewVerifyResult EXCEPT !.BuildOut = o.out, !.BuildOK = o.ok]
         /\ pc' = IF o.ok THEN "vet" ELSE "verified"
    /\ cmdLog' = <<"build">>
    /\ UNCHANGED notLoopVars
    /\ UNCHANGED <<cfgMaxRetries, testCmd, initialFiles, ctxDone, site, i,
                   maxRetries, result, err, retryCalls, verifyHist, cancelAt,
                   firstSeen>>

\* Verify, second part: go vet, then the decisions taken before the test
VerifyVet ==
    /\ pc = "vet"
    /\ \E o \in CmdOutcomes :
         LET r1 == [vr EXCEPT !.VetOut = o.out, !.VetOK = o.ok] IN
         IF testCmd = ""
         THEN vr' = r1 /\ pc' = "verified"
         ELSE IF ~r1.VetOK
              THEN vr' = [r1 EXCEPT !.TestOK = FALSE] /\ pc' = "verified"
              ELSE vr' = r1 /\ pc' = "test"
    /\ cmdLog' = Append(cmdLog, "vet")
    /\ UNCHANGED notLoopVars
    /\ UNCHANGED <<cfgMaxRetries, testCmd, initialFiles, ctxDone, site, i,
                   maxRetries, result, err, retryCalls, verifyHist, cancelAt,
                   firstSeen>>

\* Verify, third part: the test command
VerifyTest ==
    /\ pc = "test"
    /\ \E o \in CmdOutcomes :
         vr' = [vr EXCEPT !.TestOutput = o.out, !.TestOK = o.ok]
    /\ pc' = "verified"
    /\ cmdLog' = Append(cmdLog, "test")
    /\ UNCHANGED notLoopVars
    /\ UNCHANGED <<cfgMaxRetries, testCmd, initialFiles, ctxDone, site, i,
                   maxRetries, result, err, retryCalls, verifyHist, cancelAt,
                   firstSeen>>

----------------------------------------------------------------------------
(* internal/feedback: Run *)

\* mergeFiles: existing, then the entries of additional not seen before
RECURSIVE mergeFiles(_, _)
mergeFiles(existing, additional) ==
    IF additional = <<>> THEN existing
    ELSE IF Head(additional) \in Range(existing)
         THEN mergeFiles(existing, Tail(additional))
         ELSE mergeFiles(Append(existing, Head(additional)), Tail(additional))

\* the loop condition off by one
LoopCondInclusive(k, m) == k <= m

\* the for-loop's condition  i < maxRetries
LoopCond(k, m) == k < m

\* VerifyReturns without the return on success inside the loop
VerifyReturnsNoExit ==
    /\ pc = "verified"
    /\ result' = [result EXCEPT !.FinalResult = vr, !.Success = Success(vr)]
    /\ verifyHist' = Append(verifyHist, Success(vr))
    /\ IF Success(vr) /\ site = "initial"
       THEN pc' = "done" /\ i' = i
       ELSE pc' = "loop" /\ i' = (IF site = "initial" THEN 0 ELSE i + 1)
    /\ UNCHANGED notLoopVars
    /\ UNCHANGED <<cfgMaxRetries, testCmd, initialFiles, ctxDone, site,
                   maxRetries, vr, err, cmdLog, retryCalls, cancelAt,
                   firstSeen>>

\* Verify has returned to Run: record it, return on success, else (re)enter
\* the loop (the initial call falls into the loop with i = 0, a call from
\* the loop body reaches the loop's post statement i++)
VerifyReturns ==
    /\ pc = "verified"
    /\ result' = [result EXCEPT !.FinalResult = vr, !.Success = Success(vr)]
    /\ verifyHist' = Append(verifyHist, Success(vr))
    /\ IF Success(vr)
       THEN pc' = "done" /\ i' = i
       ELSE pc' = "loop" /\ i' = (IF site = "initial" THEN 0 ELSE i + 1)
    /\ UNCHANGED notLoopVars
    /\ UNCHANGED <<cfgMaxRetries, testCmd, initialFiles, ctxDone, site,
                   maxRetries, vr, err, cmdLog, retryCalls, cancelAt,
                   firstSeen>>

\* loop condition false: all retries exhausted
LoopExhausted ==
    /\ pc = "loop"
    /\ ~LoopCond(i, maxRetries)
    /\ err' = "max retries exhausted"
    /\ pc' = "done"
    /\ UNCHANGED notLoopVars
    /\ UNCHANGED <<cfgMaxRetries, testCmd, initialFiles, ctxDone, site, i,
                   maxRetries, vr, result, cmdLog, retryCalls, verifyHist,
                   cancelAt, firstSeen>>

\* loop body, ctx.Err() != nil
LoopCancelled ==
    /\ pc = "loop"
    /\ LoopCond(i, maxRetries)
    /\ ctxDone
    /\ err' = "context canceled"
    /\ pc' = "done"
    /\ UNCHANGED notLoopVars
    /\ UNCHANGED <<cfgMaxRetries, testCmd, initialFiles, ctxDone, site, i,
                   maxRetries, vr, result, cmdLog, retryCalls, verifyHist,
                   cancelAt, firstSeen>>

\* loop body up to the call of retryFn: result.Retries++ (FormatErrors
\* only computes the prompt)
LoopBody ==
    /\ pc = "loop"
    /\ LoopCond(i, maxRetries)
    /\ ~ctxDone
    /\ result' = [result EXCEPT !.Retries = @ + 1]
    /\ pc' = "retryFn"
    /\ UNCHANGED notLoopVars
    /\ UNCHANGED <<cfgMaxRetries, testCmd, initialFiles, ctxDone, site, i,
                   maxRetries, vr, err, cmdLog, retryCalls, verifyHist,
                   cancelAt, firstSeen>>

\* retryFn returns an error, and the files it names are merged all the same
RetryFnFailsMerges ==
    /\ pc = "retryFn"
    /\ retryCalls' = retryCalls + 1
    /\ err' = "retry failed"
    /\ pc' = "done"
    /\ result' = [result EXCEPT !.ModifiedFiles = mergeFiles(@, <<"a.go">>)]
    /\ UNCHANGED notLoopVars
    /\ UNCHANGED <<cfgMaxRetries, testCmd, initialFiles, ctxDone, site, i,
                   maxRetries, vr, cmdLog, verifyHist, cancelAt,
                   firstSeen>>

\* retryFn returns an error: Run returns "retry %d failed"
RetryFnFails ==
    /\ pc = "retryFn"
    /\ retryCalls' = retryCalls + 1
    /\ err' = "retry failed"
    /\ pc' = "done"
    /\ UNCHANGED notLoopVars
    /\ UNCHANGED <<cfgMaxRetries, testCmd, initialFiles, ctxDone, site, i,
                   maxRetries, vr, result, cmdLog, verifyHist, cancelAt,
                   firstSeen>>

\* retryFn returns a list of modified files: merge it and verify again
RetryFnReturns ==
    /\ pc = "retryFn"
    /\ \E files \in SeqsUpTo(FileNames, MaxFileList) :
         /\ result' = [result EXCEPT
                         !.ModifiedFiles = mergeFiles(@, files)]
         /\ firstSeen' = FirstSeen(firstSeen \o files)
    /\ retryCalls' = retryCalls + 1
    /\ site' = "retry"
    /\ pc' = "build"
    /\ UNCHANGED notLoopVars
    /\ UNCHANGED <<cfgMaxRetries, testCmd, initialFiles, ctxDone, i,
                   maxRetries, vr, err, cmdLog, verifyHist, cancelAt>>

\* the caller cancels the context while Run is in progress
Cancel ==
    /\ pc # "done"
    /\ ~ctxDone
    /\ ctxDone' = TRUE
    /\ cancelAt' = pc
    /\ UNCHANGED notLoopVars
    /\ UNCHANGED <<cfgMaxRetries, testCmd, initialFiles, pc, site, i,
                   maxRetries, vr, result, err, cmdLog, retryCalls,
                   verifyHist, firstSeen>>

----------------------------------------------------------------------------
(* Strings *)

Alphabet == {"a", " ", "\n"}

Strings(n) == SeqsUpTo(Alphabet, n)

\* s[lo:hi] of Go, 0-based and half-open
Slice(s, lo, hi) == SubSeq(s, lo + 1, hi)

\* strings.Index from offset k on: the first offset at which search occurs
RECURSIVE IndexFrom(_, _, _)
IndexFrom(content, search, k) ==
    IF k + Len(search) > Len(content) THEN -1
    ELSE IF Slice(content, k, k + Len(search)) = search THEN k
    ELSE IndexFrom(content, search, k + 1)

\* strings.Index
Index(content, search) == IndexFrom(content, search, 0)

\* strings.Split(s, "\n"): always at least one line
RECURSIVE Split(_)
Split(s) ==
    LET k == Index(s, <<"\n">>) IN
    IF k < 0 THEN <<s>>
    ELSE <<Slice(s, 0, k)>> \o Split(Slice(s, k + 1, Len(s)))

\* strings.Join(lines, "\n")
RECURSIVE Join(_)
Join(lines) ==
    IF lines = <<>> THEN <<>>
    ELSE IF Len(lines) = 1 THEN lines[1]
    ELSE lines[1] \o <<"\n">> \o Join(Tail(lines))

IsSpace(c) == c \in {" ", "\t", "\n", "\r"}

RECURSIVE TrimLeft(_)
TrimLeft(s) ==
    IF s # <<>> /\ IsSpace(Head(s)) THEN TrimLeft(Tail(s)) ELSE s

RECURSIVE TrimRight(_)
TrimRight(s) ==
    IF s # <<>> /\ IsSpace(s[Len(s)])
    THEN TrimRight(SubSeq(s, 1, Len(s) - 1)) ELSE s

\* strings.TrimSpace
TrimSpace(s) == TrimRight(TrimLeft(s))

\* collapseSpaces: every run of spaces and tabs becomes one space
RECURSIVE collapseFrom(_, _)
collapseFrom(s, inSpace) ==
    IF s = <<>> THEN <<>>
    ELSE IF Head(s) \in {" ", "\t"}
         THEN (IF inSpace THEN <<>> ELSE <<" ">>) \o collapseFrom(Tail(s), TRUE)
         ELSE <<Head(s)>> \o collapseFrom(Tail(s), FALSE)

collapseSpaces(s) == collapseFrom(s, FALSE)

\* the normal form of one line
normalizeLine(line) == collapseSpaces(TrimSpace(line))

\* normalizeLines: split, drop the empty line a terminal newline leaves,
\* normalise every line
normalizeLines(s) ==
    LET all == Split(s)
        lines == IF all[Len(all)] = <<>> THEN SubSeq(all, 1, Len(all) - 1)
                 ELSE all
    IN [k \in 1..Len(lines) |-> normalizeLine(lines[k])]

\* byteOffsetOfLine: sum of len(lines[k]) + 1 over the idx lines before idx
RECURSIVE byteOffsetOfLine(_, _)
byteOffsetOfLine(lines, lineIdx) ==
    IF lineIdx = 0 THEN 0
    ELSE byteOffsetOfLine(lines, lineIdx - 1) + Len(lines[lineIdx]) + 1

Min2(x, y) == IF x <= y THEN x ELSE y

\* the edit distance the diff library reports for the diff of a and b
Levenshtein(a, b) ==
    LET D[m \in 0..Len(a), n \in 0..Len(b)] ==
            IF m = 0 THEN n
            ELSE IF n = 0 THEN m
            ELSE Min2(Min2(D[m - 1, n] + 1, D[m, n - 1] + 1),
                      D[m - 1, n - 1] + (IF a[m] = b[n] THEN 0 ELSE 1))
    IN D[Len(a), Len(b)]

\* similarity, as the fraction <<numerator, denominator>>
\* (1.0 - distance/maxLen; the float comparisons made on it agree with the
\* comparisons of the fractions for the lengths of the model)
similarity(a, b) ==
    IF a = b THEN <<1, 1>>
    ELSE IF a = <<>> \/ b = <<>> THEN <<0, 1>>
    ELSE LET maxLen == IF Len(b) > Len(a) THEN Len(b) ELSE Len(a)
         IN <<maxLen - Levenshtein(a, b), maxLen>>

\* sim >= threshold, the threshold in percent
SimAtLeast(sim, pct) == sim[1] * 100 >= pct * sim[2]

\* sim > other
SimGreater(sim, other) == sim[1] * other[2] > other[1] * sim[2]

----------------------------------------------------------------------------
(* internal/editor: the matcher *)

\* defaultFuzzyThreshold = 0.8, in percent
defaultFuzzyThresholdPct == 80

\* the nil *matchResult
NoMatch ==
    [found |-> FALSE, start |-> 0, end |-> 0, stage |-> "none",
     similarity |-> <<0, 1>>]

Match(start, end, stage, sim) ==
    [found |-> TRUE, start |-> start, end |-> end, stage |-> stage,
     similarity |-> sim]

\* exactMatch using the last occurrence instead of the first
RECURSIVE LastIndexFrom(_, _, _)
LastIndexFrom(content, search, k) ==
    IF k < 0 THEN -1
    ELSE IF k + Len(search) <= Len(content)
            /\ Slice(content, k, k + Len(search)) = search THEN k
    ELSE LastIndexFrom(content, search, k - 1)

exactMatchLast(content, search) ==
    LET at == LastIndexFrom(content, search, Len(content)) IN
    IF at < 0 THEN NoMatch
    ELSE Match(at, at + Len(search), "exact", <<1, 1>>)

\* exactMatch
exactMatch(content, search) ==
    LET at == Index(content, search) IN
    IF at < 0 THEN NoMatch
    ELSE Match(at, at + Len(search), "exact", <<1, 1>>)

\* the first window of normSearchLines in normContentLines at or after
\* window w (0-based), -1 if there is none
RECURSIVE wsWindowFrom(_, _, _)
wsWindowFrom(normContentLines, normSearchLines, w) ==
    LET searchLen == Len(normSearchLines) IN
    IF w > Len(normContentLines) - searchLen THEN -1
    ELSE IF \A j \in 1..searchLen :
               normContentLines[w + j] = normSearchLines[j]
         THEN w
         ELSE wsWindowFrom(normContentLines, normSearchLines, w + 1)

\* whitespaceNormalizedMatch
whitespaceNormalizedMatch(content, search) ==
    LET normSearchLines == normalizeLines(search) IN
    IF Len(normSearchLines) = 0 THEN NoMatch
    ELSE
      LET contentLines == Split(content)
          normContentLines ==
              [k \in 1..Len(contentLines) |-> normalizeLine(contentLines[k])]
          searchLen == Len(normSearchLines)
          w == wsWindowFrom(normContentLines, normSearchLines, 0)
      IN IF w < 0 THEN NoMatch
         ELSE Match(byteOffsetOfLine(contentLines, w),
                    byteOffsetOfLine(contentLines, w + searchLen),
                    "whitespace_normalized", <<1, 1>>)

\* the loop of fuzzyMatch from window w on, best being the best so far
RECURSIVE fuzzyScan(_, _, _, _, _, _)
fuzzyScan(contentLines, search, searchLen, threshold, w, best) ==
    IF w > Len(contentLines) - searchLen THEN best
    ELSE
      LET candidate == Join(SubSeq(contentLines, w + 1, w + searchLen))
          sim == similarity(candidate, search)
          start == byteOffsetOfLine(contentLines, w)
          next == IF SimAtLeast(sim, threshold)
                     /\ (~best.found \/ SimGreater(sim, best.similarity))
                  THEN Match(start, start + Len(candidate), "fuzzy", sim)
                  ELSE best
      IN fuzzyScan(contentLines, search, searchLen, threshold, w + 1, next)

\* fuzzyMatch accepting the whole content whatever its similarity
fuzzyMatchAnySimilarity(content, search, threshold) ==
    IF search = <<>> \/ content = <<>> THEN NoMatch
    ELSE
      LET contentLines == Split(content)
          searchLen == Len(Split(search))
      IN IF searchLen > Len(contentLines)
         THEN Match(0, Len(content), "fuzzy", similarity(content, search))
         ELSE fuzzyScan(contentLines, search, searchLen, threshold, 0, NoMatch)

\* fuzzyMatch
fuzzyMatch(content, search, threshold) ==
    IF search = <<>> \/ content = <<>> THEN NoMatch
    ELSE
      LET contentLines == Split(content)
          searchLen == Len(Split(search))
      IN IF searchLen > Len(contentLines)
         THEN LET sim == similarity(content, search) IN
              IF SimAtLeast(sim, threshold)
              THEN Match(0, Len(content), "fuzzy", sim)
              ELSE NoMatch
         ELSE fuzzyScan(contentLines, search, searchLen, threshold, 0, NoMatch)

\* findMatch consulting the whitespace stage before the exact one
findMatchWsFirst(content, search, threshold) ==
    LET w == whitespaceNormalizedMatch(content, search) IN
    IF w.found THEN w
    ELSE LET m == exactMatch(content, search) IN
         IF m.found THEN m ELSE fuzzyMatch(content, search, threshold)

\* findMatch: the stages in order, the first match wins
findMatch(content, search, threshold) ==
    LET m == exactMatch(content, search) IN
    IF m.found THEN m
    ELSE LET w == whitespaceNormalizedMatch(content, search) IN
         IF w.found THEN w ELSE fuzzyMatch(content, search, threshold)

----------------------------------------------------------------------------
(* The workspace *)

NoFile == [exists |-> FALSE, data |-> <<>>]

File(data) == [exists |-> TRUE, data |-> data]

Paths == {"cfg.txt", "main.go"}

\* filepath.Ext, lower-cased
LowerExt(path) == IF path = "main.go" THEN ".go" ELSE ".txt"

\* where an Apply call can be made to fail by the operating system
FailPoints ==
    {"none", "read", "mkdir", "createTemp", "write", "close", "chmod",
     "rename"}

\* os.CreateTemp: a name not in use
NewTemp(t) == Cardinality(t) + 1

WriteResult(f, t, e) == [fs |-> f, temps |-> t, err |-> e]

\* atomicWrite leaving the temp file behind when chmod fails
atomicWriteLeaky(f, t, path, data, failAt) ==
    IF failAt = "createTemp" THEN WriteResult(f, t, "creating temp file")
    ELSE
      LET tmpPath == NewTemp(t)
          created == t \cup {tmpPath}
          removed == created \ {tmpPath}
      IN IF failAt = "write" THEN WriteResult(f, removed, "writing temp file")
         ELSE IF failAt = "close"
              THEN WriteResult(f, removed, "closing temp file")
         ELSE IF failAt = "chmod"
              THEN WriteResult(f, created, "setting permissions")
         ELSE IF failAt = "rename"
              THEN WriteResult(f, removed, "renaming temp file")
         ELSE WriteResult([f EXCEPT ![path] = File(data)], removed, "nil")

\* atomicWrite: temp file in the target's directory, write, close, chmod,
\* rename over the target; on a failing step the temp file is removed
\* (os.Remove of the file just created is taken to succeed)
atomicWrite(f, t, path, data, failAt) ==
    IF failAt = "createTemp" THEN WriteResult(f, t, "creating temp file")
    ELSE
      LET tmpPath == NewTemp(t)
          created == t \cup {tmpPath}
          removed == created \ {tmpPath}
      IN IF failAt = "write" THEN WriteResult(f, removed, "writing temp file")
         ELSE IF failAt = "close"
              THEN WriteResult(f, removed, "closing temp file")
         ELSE IF failAt = "chmod"
              THEN WriteResult(f, removed, "setting permissions")
         ELSE IF failAt = "rename"
              THEN WriteResult(f, removed, "renaming temp file")
         ELSE WriteResult([f EXCEPT ![path] = File(data)], removed, "nil")

----------------------------------------------------------------------------
(* internal/editor: TextEditor *)

Edit(path, old, new, isCreate) ==
    [FilePath |-> path, OldContent |-> old, NewContent |-> new,
     IsCreate |-> isCreate]

\* what an Apply call leaves and returns: status "ok" (an ApplyResult and a
\* nil error), "error" (a nil result and an error) or "panic" (the call does
\* not return: a slice bound out of range)
Outcome(f, t, status, e, m) ==
    [fs |-> f, temps |-> t, status |-> status, err |-> e, match |-> m]

\* the result of a write, wrapped by the caller
AfterWrite(w, m) ==
    IF w.err = "nil" THEN Outcome(w.fs, w.temps, "ok", "nil", m)
    ELSE Outcome(w.fs, w.temps, "error", w.err, NoMatch)

\* TextEditor.fuzzyThreshold
fuzzyThresholdOf(field) ==
    IF field > 0 THEN field ELSE defaultFuzzyThresholdPct

\* TextEditor.createFile
createFile(f, t, e, failAt) ==
    IF f[e.FilePath].exists THEN Outcome(f, t, "error", "file already exists", NoMatch)
    ELSE IF failAt = "mkdir"
         THEN Outcome(f, t, "error", "creating directory", NoMatch)
    ELSE AfterWrite(atomicWrite(f, t, e.FilePath, e.NewContent, failAt),
                    Match(0, 0, "exact", <<1, 1>>))

\* TextEditor.appendFile
appendFile(f, t, e, failAt) ==
    IF ~f[e.FilePath].exists \/ failAt = "read"
    THEN Outcome(f, t, "error", "reading", NoMatch)
    ELSE AfterWrite(atomicWrite(f, t, e.FilePath,
                                f[e.FilePath].data \o e.NewContent, failAt),
                    Match(0, 0, "exact", <<1, 1>>))

\* TextEditor.Apply
Apply(f, t, e, thresholdField, failAt) ==
    IF e.IsCreate THEN createFile(f, t, e, failAt)
    ELSE IF e.OldContent = <<>> /\ e.NewContent # <<>>
         THEN appendFile(f, t, e, failAt)
    ELSE IF e.OldContent = <<>> /\ e.NewContent = <<>>
         THEN Outcome(f, t, "error", "empty search and replacement", NoMatch)
    ELSE IF ~f[e.FilePath].exists \/ failAt = "read"
         THEN Outcome(f, t, "error", "reading", NoMatch)
    ELSE
      LET content == f[e.FilePath].data
          m == findMatch(content, e.OldContent,
                         fuzzyThresholdOf(thresholdField))
      IN IF ~m.found THEN Outcome(f, t, "error", "no match", NoMatch)
         ELSE IF m.end > Len(content)
              THEN Outcome(f, t, "panic", "slice bounds out of range", m)
         ELSE AfterWrite(
                atomicWrite(f, t, e.FilePath,
                            Slice(content, 0, m.start) \o e.NewContent
                                \o Slice(content, m.end, Len(content)),
                            failAt),
                m)

IsReplace(e) == ~e.IsCreate /\ e.OldContent # <<>>

\* no Apply call made yet
NoEdit == Edit("", <<>>, <<>>, FALSE)

NoOutcome == [status |-> "none", err |-> "nil", match |-> NoMatch]

Returned(out) == [status |-> out.status, err |-> out.err, match |-> out.match]

----------------------------------------------------------------------------
(* SpecMatch: the matcher stages on bounded inputs *)

\* longest file content drawn
MaxContentLen == 3
\* longest search text (old_text) drawn
MaxSearchLen == 2
\* longest replacement text (new_text) drawn
MaxNewLen == 1

\* FuzzyThreshold as configured: unset (the default applies) or one half
Thresholds == {0, 50}

NotRun == [NoMatch EXCEPT !.stage = "notrun"]

RunExact ==
    /\ mExact = NotRun
    /\ mExact' = exactMatch(mContent, mSearch)
    /\ UNCHANGED <<mContent, mSearch, mWs, mFuzzy, mFind>>
    /\ UNCHANGED <<laterVars, loopVars, editVars, routerVars>>

RunWhitespace ==
    /\ mWs = NotRun
    /\ mWs' = whitespaceNormalizedMatch(mContent, mSearch)
    /\ UNCHANGED <<mContent, mSearch, mExact, mFuzzy, mFind>>
    /\ UNCHANGED <<laterVars, loopVars, editVars, routerVars>>

RunFuzzy ==
    /\ mFuzzy = NotRun
    /\ mFuzzy' = fuzzyMatch(mContent, mSearch, fuzzyThresholdOf(fuzzyThreshold))
    /\ UNCHANGED <<mContent, mSearch, mExact, mWs, mFind>>
    /\ UNCHANGED <<laterVars, loopVars, editVars, routerVars>>

RunFindMatch ==
    /\ mFind = NotRun
    /\ mFind' = findMatch(mContent, mSearch, fuzzyThresholdOf(fuzzyThreshold))
    /\ UNCHANGED <<mContent, mSearch, mExact, mWs, mFuzzy>>
    /\ UNCHANGED <<laterVars, loopVars, editVars, routerVars>>

----------------------------------------------------------------------------
(* SpecApply: one Apply call, then the same edit applied again *)

\* the edits drawn: replace, append, invalid and create
Edits ==
    {Edit("cfg.txt", old, new, FALSE) :
        old \in Strings(MaxSearchLen), new \in Strings(MaxNewLen)}
    \cup {Edit("cfg.txt", <<>>, new, TRUE) : new \in Strings(MaxNewLen)}

ApplyCall ==
    /\ calls = 0
    /\ \E e \in Edits, failAt \in FailPoints :
         \E out \in {Apply(fs, temps, e, fuzzyThreshold, failAt)} :
         /\ fs' = out.fs
         /\ temps' = out.temps
         /\ res' = Returned(out)
         /\ edit' = e
    /\ pre' = fs
    /\ calls' = 1
    /\ UNCHANGED fuzzyThreshold
    /\ UNCHANGED <<laterVars, loopVars, matchVars, routerVars>>

ApplyAgain ==
    /\ calls = 1
    /\ res.status = "ok"
    /\ \E failAt \in FailPoints :
         \E out \in {Apply(fs, temps, edit, fuzzyThreshold, failAt)} :
         /\ fs' = out.fs
         /\ temps' = out.temps
         /\ res' = Returned(out)
    /\ pre' = fs
    /\ calls' = 2
    /\ UNCHANGED <<fuzzyThreshold, edit>>
    /\ UNCHANGED <<laterVars, loopVars, matchVars, routerVars>>

----------------------------------------------------------------------------
(* internal/editformat: Router *)

\* longest edit list handed to ApplyAll
MaxEdits == 2

\* Router.applierFor
applierFor(path) == IF LowerExt(path) = ".go" THEN "ASTApplier"
                    ELSE "TextApplier"

\* the Applier's Apply: the orchestrator plugs the same TextEditor into
\* both fields of the Router
ApplierApply(applier, f, t, e, thresholdField, failAt) ==
    Apply(f, t, e, thresholdField, failAt)

\* the edits a list handed to ApplyAll is made of
RouterEdits ==
    {Edit(p, old, new, FALSE) :
        p \in Paths,
        old \in {<<>>, <<"a">>, <<" ", "a", "\n">>},
        new \in {<<>>, <<"a", "a">>}}
    \cup {Edit(p, <<>>, <<"a">>, TRUE) : p \in Paths}

\* one iteration of the range loop: the next edit of the list is applied
RouterApply ==
    /\ rpc = "loop"
    /\ idx < nEdits
    /\ \E e \in RouterEdits, failAt \in FailPoints :
         \E out \in {ApplierApply(applierFor(e.FilePath), fs, temps, e,
                                  fuzzyThreshold, failAt)} :
         /\ fs' = out.fs
         /\ temps' = out.temps
         /\ res' = Returned(out)
         /\ edit' = e
         /\ IF out.status = "panic"
            THEN rpc' = "panicked" /\ UNCHANGED <<applied, errors>>
            ELSE /\ rpc' = rpc
                 /\ IF out.status = "error"
                    THEN /\ errors' = Append(errors,
                                        [index |-> idx + 1, err |-> out.err])
                         /\ applied' = applied
                    ELSE /\ applied' = Append(applied,
                                        [index |-> idx + 1,
                                         FilePath |-> e.FilePath,
                                         Stage |-> out.match.stage,
                                         Similarity |-> out.match.similarity])
                         /\ errors' = errors
    /\ pre' = fs
    /\ idx' = idx + 1
    /\ UNCHANGED <<fuzzyThreshold, calls, nEdits>>
    /\ UNCHANGED <<laterVars, loopVars, matchVars>>

\* the range loop is over: return result
RouterReturn ==
    /\ rpc = "loop"
    /\ idx = nEdits
    /\ rpc' = "returned"
    /\ UNCHANGED <<nEdits, idx, applied, errors>>
    /\ UNCHANGED <<laterVars, loopVars, matchVars, editVars>>

----------------------------------------------------------------------------
(* internal/editformat: Parse *)

(* A response is held as its lines, strings.Split(response, "\n"): a       *)
(* sequence of at least one line.  A builder is held as the lines written  *)
(* to it, <<"">> being the empty builder.  The old and new text of a       *)
(* parsed Edit, empty or ending with a newline, is held as the sequence of *)
(* its newline-terminated lines, <<>> being the empty text.                *)

markerSearch == "<<<<<<< SEARCH"

markerDivider == "======="

markerReplace == ">>>>>>> REPLACE"

\* longest response drawn, in lines
MaxRespLines == 5
\* longest old_text and new_text serialized, in lines
MaxTextLines == 1

\* a markdown fence line: three backticks
fenceLine == "FENCE"

\* the line of a path written between two backticks
quotedPathLine == "BTf.txtBT"

\* the lines a response is drawn from: the markers (the divider indented),
\* a markdown fence, a path in backticks, a blank line, a line of prose
RespLineSet ==
    {markerSearch, " =======", markerReplace, fenceLine, quotedPathLine, "",
     "x y"}

\* strings.TrimSpace of a line (of the lines of the model only the indented
\* divider has outer whitespace)
TrimLine(line) == IF line = " =======" THEN markerDivider ELSE line

\* strings.Trim of the backticks around s
TrimBackticks(s) == IF s = quotedPathLine THEN "f.txt" ELSE s

\* strings.ContainsAny(s, " \t")
ContainsBlank(s) == s \in {markerSearch, markerReplace, "x y", " ======="}

\* strings.Contains(s, "/"): no line of the model holds a slash
ContainsSlash(s) == FALSE

\* isMarker
isMarker(line, marker) == TrimLine(line) = marker

\* isMarkdownFence
isMarkdownFence(line) == TrimLine(line) = fenceLine

\* extractFilePath
extractFilePath(line) ==
    LET s == TrimLine(line) IN
    IF isMarkdownFence(s) THEN ""
    ELSE LET t == TrimLine(TrimBackticks(s)) IN
         IF ContainsBlank(t) /\ ~ContainsSlash(t) THEN "" ELSE t

\* strings.TrimSpace(response) == ""
TrimsToEmpty(lines) == \A k \in 1..Len(lines) : TrimLine(lines[k]) = ""

\* a strings.Builder after the write of a newline (when not empty) and
\* WriteString(line)
WriteLine(b, line) == IF b = <<"">> THEN <<line>> ELSE Append(b, line)

\* appendReasoning over lines[from:to]
RECURSIVE appendReasoning(_, _, _, _)
appendReasoning(b, lines, from, to) ==
    IF from >= to THEN b
    ELSE appendReasoning(WriteLine(b, lines[from + 1]), lines, from + 1, to)

\* the index of the first SEARCH marker at or after j, -1 if there is none
RECURSIVE FindSearch(_, _)
FindSearch(lines, j) ==
    IF j >= Len(lines) THEN -1
    ELSE IF isMarker(lines[j + 1], markerSearch) THEN j
    ELSE FindSearch(lines, j + 1)

\* reconstructBlock, as the lines joined
reconstructBlock(lines, start, end) ==
    SubSeq(lines, start + 1, IF end > Len(lines) THEN Len(lines) ELSE end)

\* builder.String() with "\n" appended when not empty
BlockText(b) == IF b = <<"">> THEN <<>> ELSE b

\* strings.TrimSpace(reasoning.String()), as lines
RECURSIVE DropBlankHead(_)
DropBlankHead(b) ==
    IF b # <<>> /\ TrimLine(Head(b)) = "" THEN DropBlankHead(Tail(b)) ELSE b

RECURSIVE DropBlankTail(_)
DropBlankTail(b) ==
    IF b # <<>> /\ TrimLine(b[Len(b)]) = ""
    THEN DropBlankTail(SubSeq(b, 1, Len(b) - 1)) ELSE b

TrimReasoning(b) ==
    LET t == DropBlankTail(DropBlankHead(b)) IN
    IF t = <<>> THEN <<"">>
    ELSE [t EXCEPT ![1] = TrimLine(t[1])]

ParseError(position, rawText, message) ==
    [Position |-> position, RawText |-> rawText, Message |-> message]

NewParseResult ==
    [Edits |-> <<>>, ParseErrors |-> <<>>, ReasoningText |-> <<"">>,
     BlocksFound |-> 0, BlocksParsed |-> 0]

NotReturned == [returned |-> FALSE, hasResult |-> FALSE, err |-> "nil"]

unchangedInput == UNCHANGED <<serEdits, respLines>>

notParseVars == <<loopVars, matchVars, editVars, routerVars, gitVars,
                  coderVars, unitVars>>

\* the guard on the empty response
ParseBegin ==
    /\ ppc = "begin"
    /\ IF TrimsToEmpty(respLines)
       THEN /\ ppc' = "returned"
            /\ parseRet' = [returned |-> TRUE, hasResult |-> FALSE,
                            err |-> "NoEditsFound"]
       ELSE /\ ppc' = "scan"
            /\ parseRet' = parseRet
    /\ unchangedInput
    /\ UNCHANGED <<li, searchIdx, filePath, searchText, replaceText,
                   reasoning, parseResult>>
    /\ UNCHANGED notParseVars

\* one pass of the outer loop up to the opening of a block: look for a
\* SEARCH marker; without one the rest is reasoning, with one the lines
\* before the path line are reasoning and the block is opened
ScanBlock ==
    /\ ppc = "scan"
    /\ li < Len(respLines)
    /\ LET found == FindSearch(respLines, li)
           filePathLine == found - 1
       IN IF found < 0
          THEN /\ reasoning' = appendReasoning(reasoning, respLines, li,
                                               Len(respLines))
               /\ li' = Len(respLines)
               /\ UNCHANGED <<ppc, searchIdx, filePath, searchText,
                              replaceText, parseResult>>
          ELSE /\ reasoning' = appendReasoning(reasoning, respLines, li,
                                               filePathLine)
               /\ filePath' = IF filePathLine >= 0
                              THEN extractFilePath(respLines[filePathLine + 1])
                              ELSE ""
               /\ searchIdx' = found
               /\ li' = found + 1
               /\ parseResult' =
                    [parseResult EXCEPT !.BlocksFound = @ + 1]
               /\ searchText' = <<"">>
               /\ replaceText' = <<"">>
               /\ ppc' = "search"
    /\ unchangedInput
    /\ UNCHANGED parseRet
    /\ UNCHANGED notParseVars

\* one step of the loop collecting the search text, and its exit
CollectSearch ==
    /\ ppc = "search"
    /\ IF li >= Len(respLines)
       THEN /\ parseResult' =
                 [parseResult EXCEPT !.ParseErrors = Append(@,
                     ParseError(searchIdx + 1,
                                reconstructBlock(respLines, searchIdx, li),
                                "unclosed block: missing ======= divider"))]
            /\ ppc' = "scan"
            /\ UNCHANGED <<li, searchText>>
       ELSE IF isMarker(respLines[li + 1], markerDivider)
       THEN /\ li' = li + 1
            /\ ppc' = "replace"
            /\ UNCHANGED <<searchText, parseResult>>
       ELSE /\ searchText' = WriteLine(searchText, respLines[li + 1])
            /\ li' = li + 1
            /\ UNCHANGED <<ppc, parseResult>>
    /\ unchangedInput
    /\ UNCHANGED <<searchIdx, filePath, replaceText, reasoning, parseRet>>
    /\ UNCHANGED notParseVars

\* CloseBlock recording the edit of a block also when its path is missing
CloseBlockKeepsEdit(at) ==
    LET next == IF at < Len(respLines) /\ isMarkdownFence(respLines[at + 1])
                THEN at + 1 ELSE at
        withEdit == [parseResult EXCEPT
                       !.Edits = Append(@, Edit(filePath, BlockText(searchText),
                                                BlockText(replaceText), FALSE)),
                       !.BlocksParsed = @ + 1]
    IN /\ li' = next
       /\ IF filePath = ""
          THEN parseResult' =
                 [withEdit EXCEPT !.ParseErrors = Append(@,
                     ParseError(searchIdx + 1,
                                reconstructBlock(respLines, searchIdx, next),
                                "missing file path before <<<<<<< SEARCH marker"))]
          ELSE parseResult' = withEdit

\* the end of a block whose REPLACE marker is at li: skip a trailing fence,
\* then record the edit, or the error of the missing path
CloseBlock(at) ==
    LET next == IF at < Len(respLines) /\ isMarkdownFence(respLines[at + 1])
                THEN at + 1 ELSE at
    IN /\ li' = next
       /\ IF filePath = ""
          THEN parseResult' =
                 [parseResult EXCEPT !.ParseErrors = Append(@,
                     ParseError(searchIdx + 1,
                                reconstructBlock(respLines, searchIdx, next),
                                "missing file path before <<<<<<< SEARCH marker"))]
          ELSE parseResult' =
                 [parseResult EXCEPT
                    !.Edits = Append(@, Edit(filePath, BlockText(searchText),
                                             BlockText(replaceText), FALSE)),
                    !.BlocksParsed = @ + 1]

\* one step of the loop collecting the replacement text, and its exit
CollectReplace ==
    /\ ppc = "replace"
    /\ IF li >= Len(respLines)
       THEN /\ parseResult' =
                 [parseResult EXCEPT !.ParseErrors = Append(@,
                     ParseError(searchIdx + 1,
                                reconstructBlock(respLines, searchIdx, li),
                                "unclosed block: missing >>>>>>> REPLACE marker"))]
            /\ ppc' = "scan"
            /\ UNCHANGED <<li, replaceText>>
       ELSE IF isMarker(respLines[li + 1], markerReplace)
       THEN /\ CloseBlock(li + 1)
            /\ ppc' = "scan"
            /\ UNCHANGED replaceText
       ELSE /\ replaceText' = WriteLine(replaceText, respLines[li + 1])
            /\ li' = li + 1
            /\ UNCHANGED <<ppc, parseResult>>
    /\ unchangedInput
    /\ UNCHANGED <<searchIdx, filePath, searchText, reasoning, parseRet>>
    /\ UNCHANGED notParseVars

\* ParseReturn reporting no edits when no block was parsed
ParseReturnOnNoneParsed ==
    /\ ppc = "scan"
    /\ li >= Len(respLines)
    /\ parseResult' =
         [parseResult EXCEPT !.ReasoningText = TrimReasoning(reasoning)]
    /\ parseRet' = IF parseResult.BlocksParsed = 0
                   THEN [returned |-> TRUE, hasResult |-> FALSE,
                         err |-> "NoEditsFound"]
                   ELSE [returned |-> TRUE, hasResult |-> TRUE, err |-> "nil"]
    /\ ppc' = "returned"
    /\ unchangedInput
    /\ UNCHANGED <<li, searchIdx, filePath, searchText, replaceText, reasoning>>
    /\ UNCHANGED notParseVars

\* the outer loop is over: the reasoning text is set and Parse returns
ParseReturn ==
    /\ ppc = "scan"
    /\ li >= Len(respLines)
    /\ parseResult' =
         [parseResult EXCEPT !.ReasoningText = TrimReasoning(reasoning)]
    /\ parseRet' = IF parseResult.BlocksFound = 0
                   THEN [returned |-> TRUE, hasResult |-> FALSE,
                         err |-> "NoEditsFound"]
                   ELSE [returned |-> TRUE, hasResult |-> TRUE, err |-> "nil"]
    /\ ppc' = "returned"
    /\ unchangedInput
    /\ UNCHANGED <<li, searchIdx, filePath, searchText, replaceText, reasoning>>
    /\ UNCHANGED notParseVars

\* the block of one edit: its path line, then SEARCH, the old lines,
\* =======, the new lines, REPLACE
SerializeEdit(e) ==
    <<e.FilePath, markerSearch>> \o e.OldContent \o <<markerDivider>>
        \o e.NewContent \o <<markerReplace>>

RECURSIVE Serialize(_)
Serialize(edits) ==
    IF edits = <<>> THEN <<>>
    ELSE SerializeEdit(Head(edits)) \o Serialize(Tail(edits))

\* the lines an old_text or new_text is made of
TextLineSet == {"", "x y"}

\* the texts serialized: empty, or lines each ending with a newline
Texts == SeqsUpTo(TextLineSet, MaxTextLines)

SerEdits == {Edit("f.txt", old, new, FALSE) : old \in Texts, new \in Texts}

----------------------------------------------------------------------------
(* internal/git: Repo *)
(*                                                                         *)
(* A commit message is held as its lines, and a line as the pieces of text *)
(* it is put together from: coAuthorTrailer is one piece, a blank line is  *)
(* <<>>.  A prompt is held as its pieces too: a piece is a word or one     *)
(* character that is not a letter; PieceLen gives the bytes of a piece.    *)
(* A tree maps every                                                       *)
(* file to its content, "none" for a file that is absent.  The repository  *)
(* is its commits from the root to HEAD (the first parent of a commit is   *)
(* the one before it), the index and the worktree.  go-git is assumed to   *)
(* do what its documentation says; any of its calls may also fail.         *)

coAuthorTrailer == "Co-Authored-By: go-coder <noreply@go-coder>"

dirtyCommitMsg == <<<<"go-coder: save uncommitted changes before edit">>>>

ErrNotGoCoderCommit == "not a go-coder commit"

ErrDirtyWorkTree == "uncommitted changes exist"

\* most commits a modelled repository holds
MaxCommits == 2

GitFiles == {"a.go"}

Versions == {"none", "v1", "v2"}

\* the tree of a repository without commits
EmptyTree == [f \in GitFiles |-> "none"]

maxSubjectLength == 72

\* the words of the modelled prompts and the commit types, with their bytes;
\* every other piece is one byte
PieceLen(p) ==
    CASE p \in {"ci", ": "} -> 2
      [] p \in {"fix", "add", "Add"} -> 3
      [] p \in {"test", "docs", "perf", "feat"} -> 4
      [] p \in {"style", "build", "chore"} -> 5
      [] p = "refactor" -> 8
      [] OTHER -> 1

\* len(s), in bytes
RECURSIVE ByteLen(_)
ByteLen(s) == IF s = <<>> THEN 0 ELSE PieceLen(Head(s)) + ByteLen(Tail(s))

\* s[:n]: the pieces of s within its first n bytes (the modelled prompts
\* keep their words away from byte maxSubjectLength - 3, so no word is cut)
RECURSIVE Take(_, _)
Take(s, n) ==
    IF s = <<>> \/ PieceLen(Head(s)) > n THEN <<>>
    ELSE <<Head(s)>> \o Take(Tail(s), n - PieceLen(Head(s)))

\* strings.ToLower of one piece; upper case occurs in "Add" and "A" only
ToLowerPiece(p) == IF p = "Add" THEN "add" ELSE IF p = "A" THEN "a" ELSE p

\* unicode.IsLetter, of the first or last byte of a piece
IsLetterPiece(p) == p \notin {" ", "\t", "\n", "\r", ".", ": "}

\* strings.TrimRight(s, ".")
RECURSIVE TrimRightDots(_)
TrimRightDots(s) ==
    IF s # <<>> /\ s[Len(s)] = "."
    THEN TrimRightDots(SubSeq(s, 1, Len(s) - 1)) ELSE s

\* the commitTypes table, in its order; a keyword is its pieces
commitTypes ==
    << [keywords |-> {<<"fix">>, <<"bug">>, <<"repair">>, <<"patch">>,
                      <<"resolve">>, <<"correct">>}, prefix |-> "fix"],
       [keywords |-> {<<"refactor">>, <<"restructure">>, <<"reorganize">>,
                      <<"clean", " ", "up">>, <<"simplify">>},
        prefix |-> "refactor"],
       [keywords |-> {<<"test">>, <<"spec">>, <<"coverage">>},
        prefix |-> "test"],
       [keywords |-> {<<"doc">>, <<"comment">>, <<"readme">>,
                      <<"documentation">>}, prefix |-> "docs"],
       [keywords |-> {<<"style">>, <<"format">>, <<"lint">>,
                      <<"whitespace">>}, prefix |-> "style"],
       [keywords |-> {<<"perf">>, <<"performance">>, <<"optimize">>,
                      <<"speed">>}, prefix |-> "perf"],
       [keywords |-> {<<"ci">>, <<"pipeline">>, <<"workflow">>,
                      <<"github", " ", "action">>}, prefix |-> "ci"],
       [keywords |-> {<<"build">>, <<"dependency">>, <<"deps">>,
                      <<"module">>}, prefix |-> "build"],
       [keywords |-> {<<"chore">>, <<"cleanup">>, <<"maintain">>},
        prefix |-> "chore"],
       [keywords |-> {<<"add">>, <<"create">>, <<"implement">>, <<"new">>,
                      <<"feature">>, <<"introduce">>}, prefix |-> "feat"] >>

\* containsWord: a keyword with a space occurs anywhere in the text, any
\* other keyword occurs with no letter before it and none after it
containsWord(text, keyword) ==
    \E k \in 0..(Len(text) - Len(keyword)) :
        /\ Slice(text, k, k + Len(keyword)) = keyword
        /\ \/ \E j \in 1..Len(keyword) : keyword[j] = " "
           \/ /\ k = 0 \/ ~IsLetterPiece(text[k])
              /\ \/ k + Len(keyword) = Len(text)
                 \/ ~IsLetterPiece(text[k + Len(keyword) + 1])

\* inferCommitType: the prefix of the first row with a keyword in the
\* prompt, "feat" if there is none
inferCommitType(prompt) ==
    LET lower == [k \in 1..Len(prompt) |-> ToLowerPiece(prompt[k])]
        hits == {k \in 1..Len(commitTypes) :
                    \E kw \in commitTypes[k].keywords :
                        containsWord(lower, kw)}
    IN IF hits = {} THEN "feat"
       ELSE commitTypes[CHOOSE k \in hits : \A j \in hits : k <= j].prefix

\* buildSubject: "type: summary", the summary being the prompt without
\* the space around it, its first letter in lower case, and without its
\* final periods; a subject over maxSubjectLength bytes is cut to
\* maxSubjectLength - 3 and gets "...".  summary[:1] of an empty summary is
\* a slice out of range.
buildSubject(commitType, prompt) ==
    LET trimmed == TrimSpace(prompt)
        summary == TrimRightDots(<<ToLowerPiece(Head(trimmed))>>
                                    \o Tail(trimmed))
        subject == <<commitType, ": ">> \o summary
    IN IF trimmed = <<>> THEN [panic |-> TRUE, subject |-> <<>>]
       ELSE [panic |-> FALSE,
             subject |-> IF ByteLen(subject) > maxSubjectLength
                         THEN Take(subject, maxSubjectLength - 3)
                                \o <<".", ".", ".">>
                         ELSE subject]

\* buildBody: the lines of the body, none for an empty file list
buildBody(modifiedFiles) ==
    IF modifiedFiles = <<>> THEN <<>>
    ELSE <<<<"Modified files:">>>>
            \o [k \in 1..Len(modifiedFiles) |-> <<"- ", modifiedFiles[k]>>]

\* GenerateMessage: subject (its lines, when the prompt has line breaks),
\* blank line, body (ending its last line), blank line, trailer
GenerateMessage(prompt, modifiedFiles) ==
    LET s == buildSubject(inferCommitType(prompt), prompt)
        body == buildBody(modifiedFiles)
    IN [panic |-> s.panic,
        msg |-> IF body = <<>>
                THEN Split(s.subject) \o <<<<>>, <<coAuthorTrailer>>>>
                ELSE Split(s.subject) \o <<<<>>>> \o body
                        \o <<<<>>, <<>>, <<coAuthorTrailer>>>>]

\* the tree HEAD points to; without a commit, the empty tree
HeadTree(r) ==
    IF r.commits = <<>> THEN EmptyTree ELSE r.commits[Len(r.commits)].tree

\* IsDirty: Status().IsClean() is false, something is staged or unstaged
IsDirty(r) == r.index # HeadTree(r) \/ r.work # r.index

\* Worktree.Commit: a commit of the index on top of HEAD
Commit(r, msg) ==
    [r EXCEPT !.commits = Append(@, [Message |-> msg, tree |-> r.index])]

\* what a Repo call returns, and the repository it leaves
GitOut(r, e) == [repo |-> r, err |-> e, panic |-> FALSE]

\* HandleDirty without the check of cfg.DirtyCommit
HandleDirtyAlwaysCommits(r, cfg, fail) ==
    IF fail = "status" THEN GitOut(r, "getting status")
    ELSE IF ~IsDirty(r) THEN GitOut(r, "nil")
    ELSE IF fail = "add" THEN GitOut(r, "staging dirty files")
    ELSE LET staged == [r EXCEPT !.index = r.work] IN
         IF fail = "commit" THEN GitOut(staged, "committing dirty files")
         ELSE GitOut(Commit(staged, dirtyCommitMsg), "nil")

\* HandleDirty; fail names the go-git call that fails, if one does
HandleDirty(r, cfg, fail) ==
    IF fail = "status" THEN GitOut(r, "getting status")
    ELSE IF ~IsDirty(r) THEN GitOut(r, "nil")
    ELSE IF ~cfg.DirtyCommit THEN GitOut(r, ErrDirtyWorkTree)
    ELSE IF fail = "add" THEN GitOut(r, "staging dirty files")
    ELSE LET staged == [r EXCEPT !.index = r.work] IN
         IF fail = "commit" THEN GitOut(staged, "committing dirty files")
         ELSE GitOut(Commit(staged, dirtyCommitMsg), "nil")

\* AutoCommit: stage the listed files only, commit with the generated
\* message
AutoCommit(r, cfg, modifiedFiles, prompt, fail) ==
    IF ~cfg.AutoCommit THEN GitOut(r, "nil")
    ELSE IF fail = "add" /\ modifiedFiles # <<>> THEN GitOut(r, "staging")
    ELSE LET staged == [r EXCEPT !.index =
                            [f \in GitFiles |->
                                IF f \in Range(modifiedFiles)
                                THEN r.work[f] ELSE r.index[f]]]
             gen == GenerateMessage(prompt, modifiedFiles)
         IN IF gen.panic THEN [repo |-> staged, err |-> "nil", panic |-> TRUE]
            ELSE IF fail = "commit" THEN GitOut(staged, "committing")
            ELSE GitOut(Commit(staged, gen.msg), "nil")

\* IsGoCoderCommit: strings.Contains(commit.Message, coAuthorTrailer); the
\* trailer has no newline, so it lies within one line
IsGoCoderCommit(r) ==
    LET msg == r.commits[Len(r.commits)].Message
    IN \E k \in 1..Len(msg) : coAuthorTrailer \in Range(msg[k])

\* Undo without the check of the trailer
UndoAnyCommit(r, fail) ==
    IF fail = "head" \/ r.commits = <<>> THEN GitOut(r, "getting HEAD")
    ELSE IF Len(r.commits) = 1
    THEN GitOut(r, "cannot undo: HEAD is the initial commit")
    ELSE IF fail = "reset" THEN GitOut(r, "resetting to parent")
    ELSE GitOut([r EXCEPT !.commits = SubSeq(@, 1, Len(@) - 1)], "nil")

\* Undo: a soft reset to the first parent moves HEAD only
Undo(r, fail) ==
    IF fail = "head" \/ r.commits = <<>> THEN GitOut(r, "getting HEAD")
    ELSE IF ~IsGoCoderCommit(r) THEN GitOut(r, ErrNotGoCoderCommit)
    ELSE IF Len(r.commits) = 1
    THEN GitOut(r, "cannot undo: HEAD is the initial commit")
    ELSE IF fail = "reset" THEN GitOut(r, "resetting to parent")
    ELSE GitOut([r EXCEPT !.commits = SubSeq(@, 1, Len(@) - 1)], "nil")

----------------------------------------------------------------------------
(* SpecGit: a repository worked on by hand and through Repo *)

\* a repository after git init
NewRepo == [commits |-> <<>>, index |-> EmptyTree, work |-> EmptyTree]

\* no Repo call has been made since the repository was changed by hand
NoGitCall(r) == [op |-> "none", err |-> "nil", panic |-> FALSE, pre |-> r]

GitCall(op, out, r) ==
    [op |-> op, err |-> out.err, panic |-> out.panic, pre |-> r]

\* messages of commits made by hand: a plain one, and a squash of agent
\* commits that keeps their trailer under its own subject
ForeignMessages ==
    { <<<<"wip">>>>,
      <<<<"Squashed commit">>, <<>>, <<coAuthorTrailer>>>> }

Prompts == {<<>>, <<"Add", " ", "test">>}

GitFileLists == {<<>>, <<"a.go">>}

notGitVars == <<loopVars, matchVars, editVars, routerVars, parseVars,
                coderVars, unitVars>>

\* somebody edits, creates or deletes a file of the worktree
GitWrite ==
    /\ \E f \in GitFiles, v \in Versions :
         /\ repo.work[f] # v
         /\ repo' = [repo EXCEPT !.work[f] = v]
    /\ gitLast' = NoGitCall(repo')
    /\ UNCHANGED gitCfg
    /\ UNCHANGED notGitVars

\* somebody stages the worktree
GitStage ==
    /\ repo.index # repo.work
    /\ repo' = [repo EXCEPT !.index = repo.work]
    /\ gitLast' = NoGitCall(repo')
    /\ UNCHANGED gitCfg
    /\ UNCHANGED notGitVars

\* somebody commits what is staged, with a message of their own
ForeignCommit ==
    /\ Len(repo.commits) < MaxCommits
    /\ repo.index # HeadTree(repo) \/ repo.commits = <<>>
    /\ \E m \in ForeignMessages : repo' = Commit(repo, m)
    /\ gitLast' = NoGitCall(repo')
    /\ UNCHANGED gitCfg
    /\ UNCHANGED notGitVars

HandleDirtyCall ==
    /\ Len(repo.commits) < MaxCommits
    /\ \E fail \in {"none", "status", "add", "commit"} :
         \E out \in {HandleDirty(repo, gitCfg, fail)} :
            /\ repo' = out.repo
            /\ gitLast' = GitCall("HandleDirty", out, repo)
    /\ UNCHANGED gitCfg
    /\ UNCHANGED notGitVars

AutoCommitCall ==
    /\ Len(repo.commits) < MaxCommits
    /\ \E files \in GitFileLists, prompt \in Prompts,
          fail \in {"none", "add", "commit"} :
         \E out \in {AutoCommit(repo, gitCfg, files, prompt, fail)} :
            /\ repo' = out.repo
            /\ gitLast' = GitCall("AutoCommit", out, repo)
    /\ UNCHANGED gitCfg
    /\ UNCHANGED notGitVars

UndoCall ==
    /\ \E fail \in {"none", "head", "reset"} :
         \E out \in {Undo(repo, fail)} :
            /\ repo' = out.repo
            /\ gitLast' = GitCall("Undo", out, repo)
    /\ UNCHANGED gitCfg
    /\ UNCHANGED notGitVars

----------------------------------------------------------------------------
(* internal/coder: Runner.Run *)
(*                                                                         *)
(* Run is taken in steps: the git step, the steps up to the first response,*)
(* Parse and ApplyAll, the feedback loop (the actions of feedback.Run and   *)
(* Verify above, with the retry callback of Run as retryFn), and what       *)
(* follows the loop.  A response is held as what Parse makes of it: empty,  *)
(* prose without an edit block, or text with edit blocks; ApplyAll as the   *)
(* outcome of each edit, all edits being to "a.go".                         *)

maxRetryAttempts == 3

\* largest Deps.MaxRetries
MaxCoderRetries == 1

Responses == {"", "prose", "edits"}

\* sendWithRetry: the API call is throttled throttles times, then succeeds
\* or fails with another error (last); throttled through all attempts, or
\* cancelled, it fails
sendWithRetry(throttles, last, cancelled) ==
    IF cancelled THEN [err |-> "ErrLLMFailure", text |-> ""]
    ELSE IF throttles > maxRetryAttempts
    THEN [err |-> "ErrLLMFailure", text |-> ""]
    ELSE IF last = "error" THEN [err |-> "ErrLLMFailure", text |-> ""]
    ELSE [err |-> "nil", text |-> last]

\* SendPrompt: what arrives on the result channel; on an error of
\* sendWithRetry an empty StreamResponse, the error is not passed on
SendPrompt(throttles, last, cancelled) ==
    LET r == sendWithRetry(throttles, last, cancelled)
    IN IF r.err # "nil" THEN [FullText |-> "", failed |-> TRUE]
       ELSE [FullText |-> r.text, failed |-> FALSE]

\* generate: the outcomes of one call; failed tells that the request
\* failed, whether or not the error is returned
generate(llm, cancelled) ==
    IF llm = "prompter"
    THEN {[text |-> t, err |-> "nil", failed |-> FALSE] : t \in Responses}
            \cup {[text |-> "", err |-> "prompter error", failed |-> TRUE]}
    ELSE IF llm = "none"
    THEN {[text |-> "", err |-> "no LLM client configured",
           failed |-> FALSE]}
    ELSE {[text |-> SendPrompt(n, last, cancelled).FullText, err |-> "nil",
           failed |-> SendPrompt(n, last, cancelled).failed] :
             n \in 0..(maxRetryAttempts + 1),
             last \in Responses \cup {"error"}}

\* editformat.Parse on a response: NoEditsFound unless a block was opened
ParseErr(text) == IF text = "edits" THEN "nil" ELSE "no edit blocks found"

\* ApplyAll over the parsed edits: each edit applied or failed, or a panic
\* of Apply (on a match that ends past the content)
RouteOutcomes ==
    {[panic |-> FALSE, edits |-> es] :
        es \in SeqsUpTo({"applied", "failed"}, MaxEdits)}
      \cup {[panic |-> TRUE, edits |-> <<>>]}

\* the paths of the applied edits, in order
AppliedPaths(es) ==
    [k \in 1..Len(SelectSeq(es, LAMBDA e : e = "applied")) |-> "a.go"]

\* the error strings of the failed edits
RouteErrors(es) ==
    [k \in 1..Len(SelectSeq(es, LAMBDA e : e = "failed")) |-> "edit failed"]

\* the worktree after the edits: an applied edit changes "a.go"
Edited(r, es) ==
    IF "applied" \in Range(es)
    THEN [r EXCEPT !.work["a.go"] = IF @ = "v2" THEN "v1" ELSE "v2"]
    ELSE r

NewRunResult ==
    [ModifiedFiles |-> <<>>, Errors |-> <<>>, Retries |-> 0,
     Success |-> FALSE]

\* the repositories Run may find: just initialised, one commit and clean,
\* one commit and a changed file
CoderRepos ==
    LET tree == [f \in GitFiles |-> "v1"]
        one == [commits |-> <<[Message |-> <<<<"wip">>>>, tree |-> tree]>>,
                index |-> tree, work |-> tree]
    IN {NewRepo, one, [one EXCEPT !.work["a.go"] = "v2"]}

notCoderVars == <<matchVars, editVars, routerVars, parseVars, unitVars>>

\* the parsed compiler errors of a failed Verify pass: taken from the
\* output of the failed command
CompileErrors(v) ==
    IF (~v.BuildOK /\ v.BuildOut # "") \/
       (v.BuildOK /\ ~v.VetOK /\ v.VetOut # "")
    THEN {<<>>, <<"compile error">>}
    ELSE {<<>>}

\* Run returns r and e
CoderReturn(r, e) == cres' = r /\ cerr' = e /\ cpc' = "returned"

\* step 1: with git wanted and the directory a repository, HandleDirty
CoderGit ==
    /\ cpc = "start"
    /\ IF ~deps.NoGit /\ isRepo
       THEN \E fail \in {"none", "status", "add", "commit"} :
              \E out \in {HandleDirty(repo,
                            [AutoCommit |-> TRUE, DirtyCommit |-> TRUE],
                            fail)} :
                /\ repo' = out.repo
                /\ gitLast' = GitCall("HandleDirty", out, repo)
                /\ gitRepo' = TRUE
                /\ events' = IF Len(out.repo.commits) > Len(repo.commits)
                             THEN Append(events, "save") ELSE events
                /\ IF out.err # "nil"
                   THEN CoderReturn(cres, "handling dirty files")
                   ELSE cpc' = "prepare" /\ UNCHANGED <<cres, cerr>>
       ELSE /\ cpc' = "prepare"
            /\ UNCHANGED <<repo, gitLast, gitRepo, events, cres, cerr>>
    /\ UNCHANGED <<deps, runPrompt, isRepo, responseText, repo0, gitCfg>>
    /\ UNCHANGED <<loopVars, notCoderVars>>

\* the check of ctx.Err(), BuildMap, RenderSystemPrompt, and the first
\* call of generate
CoderGenerate ==
    /\ cpc = "prepare"
    /\ IF ctxDone
       THEN CoderReturn(cres, "context canceled")
               /\ UNCHANGED <<responseText, events>>
       ELSE \/ \E e \in {"building repo map", "rendering system prompt"} :
                 CoderReturn(cres, e) /\ UNCHANGED <<responseText, events>>
            \/ \E g \in generate(deps.LLM, ctxDone) :
                 /\ events' = IF g.failed THEN Append(events, "llm failed")
                              ELSE events
                 /\ responseText' = g.text
                 /\ IF g.err # "nil"
                    THEN CoderReturn(cres, "LLM call failed")
                    ELSE cpc' = "parse" /\ UNCHANGED <<cres, cerr>>
    /\ UNCHANGED <<deps, runPrompt, isRepo, gitRepo, repo0, gitVars>>
    /\ UNCHANGED <<loopVars, notCoderVars>>

\* feedback.Run is entered: maxRetries defaulted, result allocated, the
\* initial Verify about to start
CallFeedbackRun(files) ==
    /\ cfgMaxRetries' = deps.MaxRetries
    /\ testCmd' = deps.TestCmd
    /\ initialFiles' = files
    /\ pc' = "build"
    /\ site' = "initial"
    /\ i' = 0
    /\ maxRetries' = (IF deps.MaxRetries = 0 THEN defaultMaxRetries
                      ELSE deps.MaxRetries)
    /\ vr' = NewVerifyResult
    /\ result' = [Success |-> FALSE, Retries |-> 0,
                  FinalResult |-> NewVerifyResult, ModifiedFiles |-> files]
    /\ err' = "nil"
    /\ cmdLog' = <<>>
    /\ retryCalls' = 0
    /\ verifyHist' = <<>>
    /\ firstSeen' = FirstSeen(files)
    /\ UNCHANGED <<ctxDone, cancelAt>>

\* Parse of the first response, ApplyAll, the result filled in, and the
\* call of feedback.Run
CoderParseApply ==
    /\ cpc = "parse"
    /\ IF ParseErr(responseText) # "nil"
       THEN /\ CoderReturn(cres, "failed to parse LLM response")
            /\ events' = Append(events, "parse")
            /\ UNCHANGED <<repo, loopVars>>
       ELSE \E o \in RouteOutcomes :
              IF o.panic
              THEN /\ cpc' = "panicked"
                   /\ events' = Append(events, "parse")
                   /\ UNCHANGED <<cres, cerr, repo, loopVars>>
              ELSE /\ cres' = [cres EXCEPT
                                 !.ModifiedFiles = AppliedPaths(o.edits),
                                 !.Errors = RouteErrors(o.edits)]
                   /\ repo' = Edited(repo, o.edits)
                   /\ events' = events \o <<"parse">> \o
                                  (IF "applied" \in Range(o.edits)
                                   THEN <<"edit">> ELSE <<>>)
                   /\ cpc' = "feedback"
                   /\ CallFeedbackRun(AppliedPaths(o.edits))
                   /\ UNCHANGED cerr
    /\ UNCHANGED <<deps, runPrompt, isRepo, gitRepo, responseText, repo0,
                   gitCfg, gitLast>>
    /\ UNCHANGED notCoderVars

\* the retry callback, called by feedback.Run as retryFn: generate, Parse,
\* ApplyAll; its error ends the loop with "retry %d failed", its file list
\* is merged and verified
CoderRetryFn ==
    /\ cpc = "feedback"
    /\ pc = "retryFn"
    /\ \E g \in generate(deps.LLM, ctxDone) :
         LET ev == IF g.failed THEN Append(events, "llm failed") ELSE events
         IN
         IF g.err # "nil"
         THEN /\ err' = "retry failed"
              /\ pc' = "done"
              /\ retryCalls' = retryCalls + 1
              /\ events' = ev
              /\ UNCHANGED <<responseText, repo, cpc, result, firstSeen,
                             site>>
         ELSE IF ParseErr(g.text) # "nil"
         THEN /\ err' = "retry failed"
              /\ pc' = "done"
              /\ retryCalls' = retryCalls + 1
              /\ events' = Append(ev, "parse")
              /\ UNCHANGED <<responseText, repo, cpc, result, firstSeen,
                             site>>
         ELSE \E o \in RouteOutcomes :
                IF o.panic
                THEN /\ cpc' = "panicked"
                     /\ events' = Append(ev, "parse")
                     /\ UNCHANGED <<responseText, repo, pc, err, retryCalls,
                                    result, firstSeen, site>>
                ELSE /\ result' = [result EXCEPT !.ModifiedFiles =
                                     mergeFiles(@, AppliedPaths(o.edits))]
                     /\ firstSeen' =
                          FirstSeen(firstSeen \o AppliedPaths(o.edits))
                     /\ retryCalls' = retryCalls + 1
                     /\ site' = "retry"
                     /\ pc' = "build"
                     /\ repo' = Edited(repo, o.edits)
                     /\ responseText' = g.text
                     /\ events' = ev \o <<"parse">> \o
                                    (IF "applied" \in Range(o.edits)
                                     THEN <<"edit">> ELSE <<>>)
                     /\ UNCHANGED <<cpc, err>>
    /\ UNCHANGED <<deps, runPrompt, isRepo, gitRepo, cres, cerr, repo0, gitCfg,
                   gitLast>>
    /\ UNCHANGED <<cfgMaxRetries, testCmd, initialFiles, ctxDone, i,
                   maxRetries, vr, cmdLog, verifyHist, cancelAt>>
    /\ UNCHANGED notCoderVars

\* an auto-commit whatever the outcome
ShouldAutoCommitAlways(success, haveRepo) == haveRepo

\* the condition of step 10
ShouldAutoCommit(success, haveRepo) == success /\ haveRepo

\* feedback.Run has returned: its result is copied, the errors are replaced
\* by those of the last Verify pass if the loop failed, the auto-commit is
\* made on success, and Run returns the result and nil
CoderAfterLoop ==
    /\ cpc = "feedback"
    /\ pc = "done"
    /\ \E ce \in CompileErrors(result.FinalResult) :
         LET fr == result.FinalResult
             r1 == [cres EXCEPT !.Retries = result.Retries,
                                !.ModifiedFiles = result.ModifiedFiles,
                                !.Success = result.Success]
             r2 == IF err # "nil" /\ ~r1.Success
                   THEN [r1 EXCEPT !.Errors =
                            ce \o (IF ~fr.TestOK /\ fr.TestOutput # ""
                                   THEN <<"test failure">> ELSE <<>>)]
                   ELSE r1
         IN IF ShouldAutoCommit(r2.Success, gitRepo)
            THEN \E fail \in {"none", "add", "commit"} :
                   \E out \in {AutoCommit(repo,
                                 [AutoCommit |-> TRUE, DirtyCommit |-> TRUE],
                                 r2.ModifiedFiles, runPrompt, fail)} :
                     /\ repo' = out.repo
                     /\ gitLast' = GitCall("AutoCommit", out, repo)
                     /\ events' = IF Len(out.repo.commits) > Len(repo.commits)
                                  THEN Append(events, "auto") ELSE events
                     /\ IF out.panic
                        THEN cpc' = "panicked" /\ UNCHANGED <<cres, cerr>>
                        ELSE CoderReturn(
                               IF out.err # "nil"
                               THEN [r2 EXCEPT !.Errors =
                                       Append(@, "auto-commit failed")]
                               ELSE r2, "nil")
            ELSE /\ CoderReturn(r2, "nil")
                 /\ UNCHANGED <<repo, gitLast, events>>
    /\ UNCHANGED <<deps, runPrompt, isRepo, gitRepo, responseText, repo0,
                   gitCfg>>
    /\ UNCHANGED <<loopVars, notCoderVars>>

\* the caller cancels the context while Run is in progress
CoderCancel == cpc \notin {"returned", "panicked"} /\ Cancel

----------------------------------------------------------------------------
(* internal/git: GenerateMessage on its own *)

\* longest run of letters a modelled prompt ends with
MaxPromptLen == 70

\* n times the piece c
Rep(c, n) == [k \in 1..n |-> c]

\* task prompts: a keyword or none, a line that ends with periods, a run
\* of letters of any length around the one that fills the subject, a final
\* period or space; among them the blank prompt
MsgPrompts ==
    {start \o Rep("a", n) \o suf :
        start \in {<<>>, <<"fix", " ">>,
                 <<"fix", " ", "a", ".", ".", ".", "\n">>},
        n \in {0, 1} \cup 60..MaxPromptLen,
        suf \in {<<>>, <<".">>, <<" ">>}}

\* GenerateMessage is called and returns, or panics
GenerateMessageCall ==
    /\ genMsg.pc = "call"
    /\ \E out \in {GenerateMessage(genMsg.prompt, genMsg.files)} :
         genMsg' = [genMsg EXCEPT !.pc = IF out.panic THEN "panic" ELSE "done",
                                  !.msg = out.msg]
    /\ UNCHANGED baseVars
    /\ UnitsUnchanged({"genMsg"})

----------------------------------------------------------------------------
(* internal/llm: Client.SendPrompt, sendWithRetry, consumeStream *)
(*                                                                         *)
(* The goroutine SendPrompt starts and the consumer of its two channels,   *)
(* step by step.  A token is not told from another: a response is the      *)
(* number of tokens in its text.  A channel is its buffer and whether it   *)
(* has been closed; a send or a close on a closed channel panics.          *)

baseRetryDelay == 1

\* capacity of the token channel (64 in the code) and of the result channel
TokenChCap == 1

ResultChCap == 1

\* most text events a modelled stream delivers
MaxStreamTokens == 2

NewChan == [buf |-> <<>>, closed |-> FALSE]

NewStreamResponse == [FullText |-> 0, Retries |-> 0]

\* 2^n
RECURSIVE Pow2(_)
Pow2(n) == IF n = 0 THEN 1 ELSE 2 * Pow2(n - 1)

\* sendWithRetry calls ConverseStream: the call is throttled, fails with
\* another error, or opens a stream.  Throttled, the loop goes on to the
\* next attempt if there is one; another error is classified and returned
ConverseStream ==
    /\ sp = "request"
    /\ \E o \in {"throttle", "error", "stream"} :
         /\ outcomes' = Append(outcomes, o)
         /\ CASE o = "throttle" ->
                    /\ attempt' = attempt + 1
                    /\ IF attempt + 1 <= maxRetryAttempts
                       THEN sp' = "backoff" /\ sendErr' = sendErr
                       ELSE sp' = "errClose" /\ sendErr' = "rate limited"
                    /\ UNCHANGED streamLeft
              [] o = "error" ->
                    /\ sp' = "errClose"
                    /\ sendErr' = "api error"
                    /\ UNCHANGED <<attempt, streamLeft>>
              [] o = "stream" ->
                    /\ sp' = "stream"
                    /\ streamLeft' \in 0..MaxStreamTokens
                    /\ UNCHANGED <<attempt, sendErr>>
    /\ UNCHANGED <<response, tokenCh, resultCh, consumerPc, resp, sendCtxDone,
                   delays, resultSent, drained, chanPanic>>
    /\ UNCHANGED baseVars /\ UnitsUnchanged({"send"})

\* the wait before a retry with the timer never waking the goroutine: not
\* what the code does
BackoffIgnoresCancel ==
    /\ sp = "backoff"
    /\ delays' = Append(delays, baseRetryDelay * Pow2(attempt - 1))
    /\ sp' = "request"
    /\ UNCHANGED <<attempt, sendErr, response, streamLeft, tokenCh, resultCh,
                   consumerPc, resp, sendCtxDone, outcomes, resultSent,
                   drained, chanPanic>>
    /\ UNCHANGED baseVars /\ UnitsUnchanged({"send"})

\* the select before a retry: the delay elapses, or the context is done
\* first and sendWithRetry returns
Backoff ==
    /\ sp = "backoff"
    /\ IF sendCtxDone
       THEN /\ sendErr' = "cancelled during retry"
            /\ sp' = "errClose"
            /\ UNCHANGED delays
       ELSE /\ delays' = Append(delays, baseRetryDelay * Pow2(attempt - 1))
            /\ sp' = "request"
            /\ UNCHANGED sendErr
    /\ UNCHANGED <<attempt, response, streamLeft, tokenCh, resultCh,
                   consumerPc, resp, sendCtxDone, outcomes, resultSent,
                   drained, chanPanic>>
    /\ UNCHANGED baseVars /\ UnitsUnchanged({"send"})

\* the call context is done: the caller cancelled, or the timeout passed
CallCtxDone == sendCtxDone \/ \E timeout \in BOOLEAN : timeout

\* consumeStream, the outer select: the context is done, a text event
\* arrives and is added to the text, or the event channel is closed
\* (metadata events touch no channel)
StreamEvent ==
    /\ sp = "stream"
    /\ \/ /\ CallCtxDone
          /\ sp' = "closeTokens"
          /\ UNCHANGED <<response, streamLeft>>
       \/ /\ streamLeft > 0
          /\ streamLeft' = streamLeft - 1
          /\ response' = [response EXCEPT !.FullText = @ + 1]
          /\ sp' = "token"
       \/ /\ streamLeft = 0
          /\ sp' = "closeTokens"
          /\ UNCHANGED <<response, streamLeft>>
    /\ UNCHANGED <<attempt, sendErr, tokenCh, resultCh, consumerPc, resp,
                   sendCtxDone, outcomes, delays, resultSent, drained,
                   chanPanic>>
    /\ UNCHANGED baseVars /\ UnitsUnchanged({"send"})

\* consumeStream, the inner select: the token goes into the channel when
\* there is room, or the context is done
TokenSend ==
    /\ sp = "token"
    /\ \/ /\ tokenCh.closed
          /\ chanPanic' = TRUE
          /\ sp' = "panic"
          /\ UNCHANGED tokenCh
       \/ /\ ~tokenCh.closed
          /\ Len(tokenCh.buf) < TokenChCap
          /\ tokenCh' = [tokenCh EXCEPT !.buf = Append(@, "token")]
          /\ sp' = "stream"
          /\ UNCHANGED chanPanic
       \/ /\ CallCtxDone
          /\ sp' = "closeTokens"
          /\ UNCHANGED <<tokenCh, chanPanic>>
    /\ UNCHANGED <<attempt, sendErr, response, streamLeft, resultCh,
                   consumerPc, resp, sendCtxDone, outcomes, delays, resultSent,
                   drained>>
    /\ UNCHANGED baseVars /\ UnitsUnchanged({"send"})

\* close(ch): the channel closed, or a panic when it is closed already
CloseChan(ch) ==
    IF ch.closed THEN [ch |-> ch, panic |-> TRUE]
    ELSE [ch |-> [ch EXCEPT !.closed = TRUE], panic |-> FALSE]

\* consumeStream returning without closing the token channel: not what the
\* code does
ConsumeStreamReturnLeavesOpen ==
    /\ sp = "closeTokens"
    /\ response' = [response EXCEPT !.Retries = attempt]
    /\ sp' = "result"
    /\ UNCHANGED <<attempt, sendErr, streamLeft, tokenCh, resultCh, consumerPc,
                   resp, sendCtxDone, outcomes, delays, resultSent, drained,
                   chanPanic>>
    /\ UNCHANGED baseVars /\ UnitsUnchanged({"send"})

\* consumeStream returns: its deferred close(tokenCh) runs, sendWithRetry
\* records the attempt in the response and returns it
ConsumeStreamReturn ==
    /\ sp = "closeTokens"
    /\ \E c \in {CloseChan(tokenCh)} :
         /\ tokenCh' = c.ch
         /\ chanPanic' = c.panic
         /\ sp' = IF c.panic THEN "panic" ELSE "result"
    /\ response' = [response EXCEPT !.Retries = attempt]
    /\ UNCHANGED <<attempt, sendErr, streamLeft, resultCh, consumerPc, resp,
                   sendCtxDone, outcomes, delays, resultSent, drained>>
    /\ UNCHANGED baseVars /\ UnitsUnchanged({"send"})

\* SendPrompt on an error of sendWithRetry: it closes the token channel and
\* puts an empty StreamResponse in place of the error
SendPromptError ==
    /\ sp = "errClose"
    /\ \E c \in {CloseChan(tokenCh)} :
         /\ tokenCh' = c.ch
         /\ chanPanic' = c.panic
         /\ sp' = IF c.panic THEN "panic" ELSE "result"
    /\ response' = NewStreamResponse
    /\ UNCHANGED <<attempt, sendErr, streamLeft, resultCh, consumerPc, resp,
                   sendCtxDone, outcomes, delays, resultSent, drained>>
    /\ UNCHANGED baseVars /\ UnitsUnchanged({"send"})

\* resultCh <- response, when the buffer has room
ResultSend ==
    /\ sp = "result"
    /\ \/ /\ resultCh.closed
          /\ chanPanic' = TRUE
          /\ sp' = "panic"
          /\ UNCHANGED <<resultCh, resultSent>>
       \/ /\ ~resultCh.closed
          /\ Len(resultCh.buf) < ResultChCap
          /\ resultCh' = [resultCh EXCEPT !.buf = Append(@, response)]
          /\ resultSent' = resultSent + 1
          /\ sp' = "closeResult"
          /\ UNCHANGED chanPanic
    /\ UNCHANGED <<attempt, sendErr, response, streamLeft, tokenCh, consumerPc,
                   resp, sendCtxDone, outcomes, delays, drained>>
    /\ UNCHANGED baseVars /\ UnitsUnchanged({"send"})

\* the deferred close(resultCh); the goroutine ends
ResultClose ==
    /\ sp = "closeResult"
    /\ \E c \in {CloseChan(resultCh)} :
         /\ resultCh' = c.ch
         /\ chanPanic' = c.panic
         /\ sp' = IF c.panic THEN "panic" ELSE "exit"
    /\ UNCHANGED <<attempt, sendErr, response, streamLeft, tokenCh, consumerPc,
                   resp, sendCtxDone, outcomes, delays, resultSent, drained>>
    /\ UNCHANGED baseVars /\ UnitsUnchanged({"send"})

\* generate, for range tokenCh: a token is taken, or the channel is closed
\* and empty and the loop ends
RangeTokens ==
    /\ consumerPc = "range"
    /\ IF tokenCh.buf # <<>>
       THEN /\ tokenCh' = [tokenCh EXCEPT !.buf = Tail(@)]
            /\ drained' = drained + 1
            /\ UNCHANGED consumerPc
       ELSE /\ tokenCh.closed
            /\ consumerPc' = "receive"
            /\ UNCHANGED <<tokenCh, drained>>
    /\ UNCHANGED <<sp, attempt, sendErr, response, streamLeft, resultCh, resp,
                   sendCtxDone, outcomes, delays, resultSent, chanPanic>>
    /\ UNCHANGED baseVars /\ UnitsUnchanged({"send"})

\* generate, resp := <-responseCh: the response, or nil from a channel
\* closed without one
ReceiveResult ==
    /\ consumerPc = "receive"
    /\ IF resultCh.buf # <<>>
       THEN /\ resp' = <<Head(resultCh.buf)>>
            /\ resultCh' = [resultCh EXCEPT !.buf = Tail(@)]
            /\ consumerPc' = "returned"
       ELSE /\ resultCh.closed
            /\ consumerPc' = "no response"
            /\ UNCHANGED <<resp, resultCh>>
    /\ UNCHANGED <<sp, attempt, sendErr, response, streamLeft, tokenCh,
                   sendCtxDone, outcomes, delays, resultSent, drained,
                   chanPanic>>
    /\ UNCHANGED baseVars /\ UnitsUnchanged({"send"})

\* the caller cancels the context while the call is in progress
CancelSend ==
    /\ ~sendCtxDone
    /\ sp \notin {"idle", "exit", "panic"}
    /\ sendCtxDone' = TRUE
    /\ UNCHANGED <<sp, attempt, sendErr, response, streamLeft, tokenCh,
                   resultCh, consumerPc, resp, outcomes, delays, resultSent,
                   drained, chanPanic>>
    /\ UNCHANGED baseVars /\ UnitsUnchanged({"send"})

----------------------------------------------------------------------------
(* internal/repomap: Extractor.ExtractAll, extractFile *)
(*                                                                         *)
(* The workspace holds three files, two of a supported language and one    *)
(* that is not.  The symbols of a file are named after the content they    *)
(* were parsed from.  Between two walks files are written, with any        *)
(* modification time, and made unreadable or readable.                     *)

\* latest modification time
MaxTime == 2

\* the files in the order filepath.Walk visits them
WalkOrder == <<"a.go", "b.py", "c.md">>

WalkFiles == {"a.go", "b.py", "c.md"}

\* the extension has an entry in supportedLangs
Supported(f) == f \in {"a.go", "b.py"}

NoEntry == [present |-> FALSE, modTime |-> 0, symbols |-> "nil"]

NewExtractStats ==
    [FilesProcessed |-> 0, FilesSkipped |-> 0, CacheHits |-> 0,
     ParseCount |-> 0]

\* parseSymbols: nil when the parse fails, as it does under a cancelled
\* context
parseSymbols(content, cancelled) ==
    IF cancelled THEN "nil" ELSE "symbols of " \o content

\* a cache test that takes an entry at least as new as the file: not what
\* the code does
cacheHitNotOlder(entry, modTime) ==
    entry.present /\ entry.modTime >= modTime

\* the test of extractFile: there is an entry and its time equals modTime
cacheHit(entry, modTime) ==
    entry.present /\ entry.modTime = modTime

\* extractFile: the cached symbols on a hit; else the file is read and
\* parsed, and the entry replaced
extractFile(cache, stats, f, file, cancelled) ==
    IF cacheHit(cache[f], file.modTime)
    THEN [cache |-> cache,
          stats |-> [stats EXCEPT !.CacheHits = @ + 1],
          symbols |-> cache[f].symbols, err |-> "nil", did |-> "hit"]
    ELSE IF ~file.readable
    THEN [cache |-> cache, stats |-> stats, symbols |-> "nil",
          err |-> "read failed", did |-> "skipped"]
    ELSE LET symbols == parseSymbols(file.content, cancelled)
         IN [cache |-> [cache EXCEPT ![f] = [present |-> TRUE,
                                             modTime |-> file.modTime,
                                             symbols |-> symbols]],
             stats |-> [stats EXCEPT !.ParseCount = @ + 1],
             symbols |-> symbols, err |-> "nil", did |-> "parse"]

\* ExtractAll is called: the statistics start anew
ExtractAllBegin ==
    /\ walkPc \in {"idle", "returned", "cancelled"}
    /\ extractStats' = NewExtractStats
    /\ walkTodo' = WalkOrder
    /\ allSymbols' = <<>>
    /\ walkLog' = [f \in WalkFiles |-> "none"]
    /\ walkPc' = "walking"
    /\ UNCHANGED <<disk, symCache>>
    /\ UNCHANGED baseVars /\ UnitsUnchanged({"extract"})

\* the callback of filepath.Walk on the next file; the context may be done
\* before the callback tests it, or between that test and the parse
WalkFile ==
    /\ walkPc = "walking"
    /\ walkTodo # <<>>
    /\ \E ctxAt \in {"never", "before", "after"} :
        LET f == Head(walkTodo) IN
        IF ctxAt = "before"
        THEN /\ walkPc' = "cancelled"
             /\ UNCHANGED <<symCache, extractStats, walkTodo, allSymbols,
                            walkLog>>
        ELSE IF ~Supported(f)
        THEN /\ extractStats' = [extractStats EXCEPT !.FilesSkipped = @ + 1]
             /\ walkLog' = [walkLog EXCEPT ![f] = "skipped"]
             /\ walkTodo' = Tail(walkTodo)
             /\ UNCHANGED <<symCache, allSymbols, walkPc>>
        ELSE \E out \in {extractFile(symCache, extractStats, f, disk[f],
                                      ctxAt = "after")} :
             /\ symCache' = out.cache
             /\ extractStats' =
                    IF out.err # "nil"
                    THEN [out.stats EXCEPT !.FilesSkipped = @ + 1]
                    ELSE [out.stats EXCEPT !.FilesProcessed = @ + 1]
             /\ allSymbols' =
                    IF out.err # "nil" THEN allSymbols
                    ELSE Append(allSymbols, [path |-> f,
                                             symbols |-> out.symbols])
             /\ walkLog' = [walkLog EXCEPT ![f] = out.did]
             /\ walkTodo' = Tail(walkTodo)
             /\ UNCHANGED walkPc
    /\ UNCHANGED disk
    /\ UNCHANGED baseVars /\ UnitsUnchanged({"extract"})

\* the walk is over and ExtractAll returns the symbols and the statistics
ExtractAllReturn ==
    /\ walkPc = "walking"
    /\ walkTodo = <<>>
    /\ walkPc' = "returned"
    /\ UNCHANGED <<disk, symCache, extractStats, walkTodo, allSymbols,
                   walkLog>>
    /\ UNCHANGED baseVars /\ UnitsUnchanged({"extract"})

\* between two walks a file is written, touched or backdated, or its
\* permissions change
TouchFile ==
    /\ walkPc # "walking"
    /\ \E f \in {g \in WalkFiles : Supported(g)}, t \in 1..MaxTime,
          c \in {"v1", "v2"}, r \in BOOLEAN :
         /\ disk[f] # [modTime |-> t, content |-> c, readable |-> r]
         /\ disk' = [disk EXCEPT
                        ![f] = [modTime |-> t, content |-> c, readable |-> r]]
    /\ UNCHANGED <<symCache, extractStats, walkPc, walkTodo, allSymbols,
                   walkLog>>
    /\ UNCHANGED baseVars /\ UnitsUnchanged({"extract"})

----------------------------------------------------------------------------
(* internal/repomap: Render *)
(*                                                                         *)
(* A ranked symbol is its file and the lengths of its name and of its      *)
(* signature, 0 for a symbol without one.  Token counts are held in        *)
(* quarters of a token, which is exact for the ratios 0.25 and 1.          *)

defaultTokenBudget == 4096

maxLineLength == 100

\* most symbols in a modelled ranking
MaxRanked == 3

\* len of the decimal form of a count
Digits(n) == IF n < 10 THEN 1 ELSE IF n < 100 THEN 2 ELSE 3

\* Render, the loop over fileOrder from its k-th file on: the section of
\* the file is added unless it would take the tokens past the budget, in
\* which case the loop ends
RECURSIVE renderSections(_, _, _, _, _, _)
renderSections(ranked, fileOrder, k, ratio4, budget4, acc) ==
    IF k > Len(fileOrder) THEN acc
    ELSE LET file == fileOrder[k]
             syms == SelectSeq(ranked, LAMBDA rs : rs.FilePath = file)
             lineLen(rs) ==
                LET n == 2 + (IF rs.sigLen = 0 THEN rs.nameLen ELSE rs.sigLen)
                IN IF n > maxLineLength THEN maxLineLength ELSE n
             LineSum[j \in 0..Len(syms)] ==
                IF j = 0 THEN 0 ELSE LineSum[j - 1] + lineLen(syms[j]) + 1
             sectionLen == file.len + 1 + LineSum[Len(syms)]
             sectionTokens == sectionLen * ratio4
         IN IF acc.tokensUsed + sectionTokens > budget4 THEN acc
            ELSE renderSections(ranked, fileOrder, k + 1, ratio4, budget4,
                    [tokensUsed |-> acc.tokensUsed + sectionTokens,
                     bodyLen |-> acc.bodyLen + sectionLen,
                     filesShown |-> acc.filesShown + 1,
                     symsShown |-> acc.symsShown + Len(syms),
                     sections |-> Append(acc.sections, file)])

\* Render: the sections that fit after a placeholder of 81 bytes, then the
\* header with the counts, and the tokens of the text with that header
Render(ranked, totalFiles, totalSyms, cfg) ==
    LET budget4 == 4 * (IF cfg.TokenBudget = 0 THEN defaultTokenBudget
                        ELSE cfg.TokenBudget)
        ratio4 == IF cfg.TokenRatio4 = 0 THEN 1 ELSE cfg.TokenRatio4
        fileOrder == FirstSeen([k \in 1..Len(ranked) |-> ranked[k].FilePath])
        packed == renderSections(ranked, fileOrder, 1, ratio4, budget4,
                    [tokensUsed |-> 81 * ratio4, bodyLen |-> 0,
                     filesShown |-> 0, symsShown |-> 0, sections |-> <<>>])
        headerLen == 35 + Digits(packed.filesShown) + Digits(totalFiles)
                        + Digits(packed.symsShown) + Digits(totalSyms)
    IN [Header |-> [files |-> packed.filesShown, syms |-> packed.symsShown],
        Sections |-> packed.sections,
        FileCount |-> packed.filesShown,
        SymCount |-> packed.symsShown,
        TokensUsed4 |-> (headerLen + 1 + packed.bodyLen) * ratio4]

\* the files of the modelled rankings, with the length of their paths
RenderFiles == {[name |-> "a.go", len |-> 4], [name |-> "b.go", len |-> 4]}

RankedSymbols ==
    [FilePath : RenderFiles, nameLen : {5}, sigLen : {0, 12, 120}]

RenderConfigs == [TokenBudget : {0, 5, 30, 40, 1000}, TokenRatio4 : {0, 4}]

\* Render is called and returns
RenderCall ==
    /\ rendering.pc = "call"
    /\ \E out \in {Render(rendering.ranked, rendering.totalFiles,
                           rendering.totalSyms, rendering.cfg)} :
         rendering' = [rendering EXCEPT !.pc = "done", !.out = <<out>>]
    /\ UNCHANGED baseVars /\ UnitsUnchanged({"rendering"})

----------------------------------------------------------------------------
(* internal/repomap: BuildGraph *)
(*                                                                         *)
(* Weights are held in hundredths: the identifier weight and the common    *)
(* weight in tenths each.                                                  *)

longNameThreshold == 8

commonThreshold == 5

\* the names of the modelled symbols with their length; "_f" starts with an
\* underscore
NameLen(name) ==
    CASE name = "f" -> 1 [] name = "_f" -> 2 [] name = "Handlers" -> 8

\* identifierWeight, in tenths
identifierWeight(name) ==
    IF NameLen(name) > 0 /\ name = "_f" THEN 1
    ELSE IF NameLen(name) >= longNameThreshold THEN 10
    ELSE 5

\* g.defs[name]: the file of every definition of the name, in list order
defsOf(symbols, name) ==
    LET ds == SelectSeq(symbols,
                LAMBDA sym : sym.Kind = "Definition" /\ sym.Name = name)
    IN [k \in 1..Len(ds) |-> ds[k].FilePath]

\* commonWeight, in tenths; defs is g.defs[name]
commonWeight(name, defs) ==
    IF Len(defs) >= commonThreshold THEN 1 ELSE 10

\* BuildGraph: edgeCounts[key] is raised once for every reference and
\* every entry of g.defs[name] in another file; every key becomes an edge
BuildGraph(symbols) ==
    LET at == 1..Len(symbols)
        edgeCount(from, to, ref) ==
            Cardinality({<<k, j>> \in at \X (1..Len(defsOf(symbols, ref))) :
                /\ symbols[k].Kind = "Reference"
                /\ symbols[k].Name = ref
                /\ symbols[k].FilePath = from
                /\ defsOf(symbols, ref)[j] = to
                /\ to # from})
        nodes == {symbols[k].FilePath : k \in at}
        names == {symbols[k].Name : k \in at}
    IN [Nodes |-> nodes,
        Edges |-> {[From |-> from, To |-> to, Reference |-> ref,
                    Weight100 |-> edgeCount(from, to, ref)
                                    * identifierWeight(ref)
                                    * commonWeight(ref, defsOf(symbols, ref))] :
                    <<from, to, ref>> \in
                        {key \in nodes \X nodes \X names :
                            edgeCount(key[1], key[2], key[3]) > 0}}]

\* most definitions, and references, of a name in one modelled file
MaxPerFile == 2

GraphFiles == {"r.go", "d1.go", "d2.go", "d3.go", "d4.go", "d5.go"}

\* n times the symbol sym
SymbolsOf(sym, n) == [k \in 1..n |-> sym]

\* the symbols of a workspace where one name is referenced refs times in
\* r.go and defined defs[f] times in file f
GraphSymbols(name, refs, defs) ==
    LET D(f) == SymbolsOf([Name |-> name, FilePath |-> f,
                           Kind |-> "Definition"], defs[f])
    IN D("r.go") \o D("d1.go") \o D("d2.go") \o D("d3.go") \o D("d4.go")
        \o D("d5.go")
        \o SymbolsOf([Name |-> name, FilePath |-> "r.go",
                      Kind |-> "Reference"], refs)

\* BuildGraph is called and returns
BuildGraphCall ==
    /\ graphing.pc = "call"
    /\ \E out \in {BuildGraph(graphing.symbols)} :
         graphing' = [graphing EXCEPT !.pc = "done", !.out = <<out>>]
    /\ UNCHANGED baseVars /\ UnitsUnchanged({"graphing"})

----------------------------------------------------------------------------
(* internal/repomap: Rank *)
(*                                                                         *)
(* The power iteration reads g.Nodes and g.Edges in slice order and no     *)
(* map, so the score of a file is a function of the arguments; it is held  *)
(* as given, one score per file.  The list that is sorted is built by      *)
(* ranging over a map, in any order of the files, and sort.Slice is not    *)
(* stable: Rank is the set of lists the sort may leave.                    *)

\* most definitions in a modelled symbol list
MaxDefs == 3

\* calls of Rank on one input
MaxRankCalls == 2

\* p < q on the modelled paths
PathLess(p, q) == p = "a.go" /\ q = "b.go"

\* the less function given to sort.Slice
rankLess(a, b) ==
    IF a.Score # b.Score THEN a.Score > b.Score
    ELSE IF a.FilePath # b.FilePath THEN PathLess(a.FilePath, b.FilePath)
    ELSE a.Line < b.Line

\* Rank after the iteration: every definition with the score of its file,
\* sorted by rankLess; elements neither of which is less than the other
\* come in any order
Rank(symbols, score) ==
    LET defs == SelectSeq(symbols, LAMBDA sym : sym.Kind = "Definition")
        n == Len(defs)
        ranked == [k \in 1..n |->
                    [FilePath |-> defs[k].FilePath, Name |-> defs[k].Name,
                     Line |-> defs[k].Line, Score |-> score[defs[k].FilePath]]]
        perms == {p \in [1..n -> 1..n] : \A a, b \in 1..n : a # b => p[a] # p[b]}
    IN {[k \in 1..n |-> ranked[p[k]]] :
            p \in {q \in perms :
                    \A a, b \in 1..n :
                        a < b => ~rankLess(ranked[q[b]], ranked[q[a]])}}

RankInputs ==
    [FilePath : {"a.go", "b.go"}, Name : {"f", "g"}, Line : {1, 2},
     Kind : {"Definition"}]

\* Rank is called on the input and returns
RankCall ==
    /\ ranking.pc = "call"
    /\ \E out \in Rank(ranking.symbols, ranking.score) :
         ranking' = [ranking EXCEPT
                        !.outs = Append(@, out),
                        !.pc = IF Len(ranking.outs) + 1 = MaxRankCalls
                               THEN "done" ELSE "call"]
    /\ UNCHANGED baseVars /\ UnitsUnchanged({"ranking"})

----------------------------------------------------------------------------
(* internal/feedback: FormatErrors, getCodeContext *)
(*                                                                         *)
(* A path is the sequence of its elements, "/" first when it is absolute.  *)
(* The commands of Verify run in the workspace (cmd.Dir), so the compiler  *)
(* names files relative to it, or outside of it; os.ReadFile resolves a    *)
(* relative path against the working directory of the process.             *)

\* most compile errors in a modelled VerifyResult
MaxCompileErrors == 2

WorkspaceDir == <<"/", "ws">>

\* the path with every ".." taking back the element before it
RECURSIVE CleanPath(_, _)
CleanPath(acc, rest) ==
    IF rest = <<>> THEN acc
    ELSE IF Head(rest) = ".."
    THEN CleanPath(IF Len(acc) > 1 THEN SubSeq(acc, 1, Len(acc) - 1) ELSE acc,
                   Tail(rest))
    ELSE CleanPath(Append(acc, Head(rest)), Tail(rest))

\* the file os.ReadFile of the path opens in a process running in cwd
OpenedFile(cwd, errPath) ==
    IF errPath[1] = "/" THEN CleanPath(<<>>, errPath)
    ELSE CleanPath(cwd, errPath)

\* getCodeContext: the file is read; without it, no context
getCodeContext(cwd, exists, errPath) ==
    [read |-> OpenedFile(cwd, errPath),
     context |-> IF OpenedFile(cwd, errPath) \in exists
                 THEN "lines" ELSE ""]

\* FormatErrors: a section for every compile error, with the context
\* getCodeContext finds for its path
FormatErrors(cwd, exists, errs) ==
    [reads |-> {getCodeContext(cwd, exists, errs[k].FilePath).read :
                    k \in 1..Len(errs)},
     sections |-> [k \in 1..Len(errs) |->
                    [error |-> errs[k],
                     context |-> getCodeContext(cwd, exists,
                                                errs[k].FilePath).context]]]

\* the paths a compiler run in the workspace reports: files of the
\* workspace, of a dependency beside it, of the Go installation
CompilerPaths ==
    {<<"main.go">>, <<"..", "dep", "x.go">>, <<"/", "ws", "main.go">>,
     <<"/", "go", "src", "fmt.go">>}

\* the files there are
ExistingFiles ==
    {<<"/", "ws", "main.go">>, <<"/", "dep", "x.go">>,
     <<"/", "go", "src", "fmt.go">>, <<"/", "home", "main.go">>}

\* FormatErrors is called and returns
FormatErrorsCall ==
    /\ formatting.pc = "call"
    /\ \E out \in {FormatErrors(formatting.cwd, ExistingFiles,
                                 formatting.errs)} :
         formatting' = [formatting EXCEPT !.pc = "done", !.out = <<out>>]
    /\ UNCHANGED baseVars /\ UnitsUnchanged({"formatting"})

----------------------------------------------------------------------------
(* ScanDir: the worker pool *)
(*                                                                         *)
(* The walk has collected the paths, all different, and the workers have   *)
(* been started, each after a wg.Add(1).  Both channels have room for      *)
(* len(paths) values.  parsedBy, consumed and scanPanic record what        *)
(* happened.                                                               *)

\* most files the walk collects
MaxScanFiles == 2

\* most workers
MaxWorkers == 2

\* ScanDir sends the next path as a job
MainSendJob ==
    /\ scanPc = "send"
    /\ scanTodo # <<>>
    /\ \/ /\ jobsCh.closed
          /\ scanPanic' = TRUE
          /\ scanPc' = "panic"
          /\ UNCHANGED <<jobsCh, scanTodo>>
       \/ /\ ~jobsCh.closed
          /\ Len(jobsCh.buf) < Len(scanPaths)
          /\ jobsCh' = [jobsCh EXCEPT !.buf = Append(@, Head(scanTodo))]
          /\ scanTodo' = Tail(scanTodo)
          /\ UNCHANGED <<scanPc, scanPanic>>
    /\ UNCHANGED <<resultsCh, wg, wpc, holding, closerPc, scanFiles,
                   parsedBy, consumed>>
    /\ UNCHANGED <<scanPaths, concurrency>>
    /\ UNCHANGED baseVars /\ UnitsUnchanged({"scan"})

\* every path sent, ScanDir closes jobs and starts the goroutine that
\* waits for the workers
MainCloseJobs ==
    /\ scanPc = "send"
    /\ scanTodo = <<>>
    /\ \E c \in {CloseChan(jobsCh)} :
         /\ jobsCh' = c.ch
         /\ scanPanic' = c.panic
         /\ scanPc' = IF c.panic THEN "panic" ELSE "drain"
    /\ closerPc' = "wait"
    /\ UNCHANGED <<resultsCh, wg, scanTodo, wpc, holding, scanFiles,
                   parsedBy, consumed>>
    /\ UNCHANGED <<scanPaths, concurrency>>
    /\ UNCHANGED baseVars /\ UnitsUnchanged({"scan"})

\* a worker, for path := range jobs: it takes a path and parses it, or
\* the channel is closed and empty and the worker ends (wg.Done)
WorkerTake(w) ==
    /\ wpc[w] = "range"
    /\ IF jobsCh.buf # <<>>
       THEN /\ jobsCh' = [jobsCh EXCEPT !.buf = Tail(@)]
            /\ holding' = [holding EXCEPT ![w] = Head(jobsCh.buf)]
            /\ parsedBy' = [parsedBy EXCEPT
                                ![Head(jobsCh.buf)] = Append(@, w)]
            /\ wpc' = [wpc EXCEPT ![w] = "send"]
            /\ UNCHANGED wg
       ELSE /\ jobsCh.closed
            /\ wpc' = [wpc EXCEPT ![w] = "exit"]
            /\ wg' = wg - 1
            /\ UNCHANGED <<jobsCh, holding, parsedBy>>
    /\ UNCHANGED <<resultsCh, scanPc, scanTodo, closerPc, scanFiles,
                   consumed, scanPanic>>
    /\ UNCHANGED <<scanPaths, concurrency>>
    /\ UNCHANGED baseVars /\ UnitsUnchanged({"scan"})

\* a worker sends the result of its parse
WorkerSend(w) ==
    /\ wpc[w] = "send"
    /\ \/ /\ resultsCh.closed
          /\ scanPanic' = TRUE
          /\ wpc' = [wpc EXCEPT ![w] = "panic"]
          /\ UNCHANGED resultsCh
       \/ /\ ~resultsCh.closed
          /\ Len(resultsCh.buf) < Len(scanPaths)
          /\ resultsCh' = [resultsCh EXCEPT !.buf = Append(@, holding[w])]
          /\ wpc' = [wpc EXCEPT ![w] = "range"]
          /\ UNCHANGED scanPanic
    /\ UNCHANGED <<jobsCh, wg, scanPc, scanTodo, holding, closerPc,
                   scanFiles, parsedBy, consumed>>
    /\ UNCHANGED <<scanPaths, concurrency>>
    /\ UNCHANGED baseVars /\ UnitsUnchanged({"scan"})

\* a closer that does not wait for the workers: not what the code does
CloserClosesAtOnce ==
    /\ closerPc = "wait"
    /\ \E c \in {CloseChan(resultsCh)} :
         /\ resultsCh' = c.ch
         /\ scanPanic' = c.panic
    /\ closerPc' = "exit"
    /\ UNCHANGED <<jobsCh, wg, scanPc, scanTodo, wpc, holding, scanFiles,
                   parsedBy, consumed>>
    /\ UNCHANGED <<scanPaths, concurrency>>
    /\ UNCHANGED baseVars /\ UnitsUnchanged({"scan"})

\* wg.Wait() returns when the counter is zero, and results is closed
CloserClose ==
    /\ closerPc = "wait"
    /\ wg = 0
    /\ \E c \in {CloseChan(resultsCh)} :
         /\ resultsCh' = c.ch
         /\ scanPanic' = c.panic
    /\ closerPc' = "exit"
    /\ UNCHANGED <<jobsCh, wg, scanPc, scanTodo, wpc, holding, scanFiles,
                   parsedBy, consumed>>
    /\ UNCHANGED <<scanPaths, concurrency>>
    /\ UNCHANGED baseVars /\ UnitsUnchanged({"scan"})

\* ScanDir, for pr := range results: it enters a result in result.Files,
\* or the channel is closed and empty and ScanDir returns
MainDrain ==
    /\ scanPc = "drain"
    /\ IF resultsCh.buf # <<>>
       THEN /\ resultsCh' = [resultsCh EXCEPT !.buf = Tail(@)]
            /\ consumed' = Append(consumed, Head(resultsCh.buf))
            /\ scanFiles' = scanFiles \cup {Head(resultsCh.buf)}
            /\ UNCHANGED scanPc
       ELSE /\ resultsCh.closed
            /\ scanPc' = "returned"
            /\ UNCHANGED <<resultsCh, consumed, scanFiles>>
    /\ UNCHANGED <<jobsCh, wg, scanTodo, wpc, holding, closerPc, parsedBy,
                   scanPanic>>
    /\ UNCHANGED <<scanPaths, concurrency>>
    /\ UNCHANGED baseVars /\ UnitsUnchanged({"scan"})

----------------------------------------------------------------------------
(* Specifications *)

IdleLoop ==
    /\ cfgMaxRetries = 0
    /\ testCmd = ""
    /\ initialFiles = <<>>
    /\ ctxDone = FALSE
    /\ pc = "idle"
    /\ site = "initial"
    /\ i = 0
    /\ maxRetries = 0
    /\ vr = NewVerifyResult
    /\ result = [Success |-> FALSE, Retries |-> 0,
                 FinalResult |-> NewVerifyResult, ModifiedFiles |-> <<>>]
    /\ err = "nil"
    /\ cmdLog = <<>>
    /\ retryCalls = 0
    /\ verifyHist = <<>>
    /\ cancelAt = "never"
    /\ firstSeen = <<>>

IdleMatch ==
    /\ mContent = <<>>
    /\ mSearch = <<>>
    /\ mExact = NotRun
    /\ mWs = NotRun
    /\ mFuzzy = NotRun
    /\ mFind = NotRun

IdleEdit ==
    /\ fs = [p \in Paths |-> NoFile]
    /\ temps = {}
    /\ fuzzyThreshold = 0
    /\ edit = NoEdit
    /\ pre = [p \in Paths |-> NoFile]
    /\ res = NoOutcome
    /\ calls = 0

IdleRouter ==
    /\ rpc = "idle"
    /\ nEdits = 0
    /\ idx = 0
    /\ applied = <<>>
    /\ errors = <<>>

IdleParse ==
    /\ serEdits = <<>>
    /\ respLines = <<"">>
    /\ ppc = "idle"
    /\ li = 0
    /\ searchIdx = -1
    /\ filePath = ""
    /\ searchText = <<"">>
    /\ replaceText = <<"">>
    /\ reasoning = <<"">>
    /\ parseResult = NewParseResult
    /\ parseRet = NotReturned

IdleGit ==
    /\ repo = NewRepo
    /\ gitCfg = [AutoCommit |-> TRUE, DirtyCommit |-> TRUE]
    /\ gitLast = NoGitCall(NewRepo)

IdleCoder ==
    /\ deps = [NoGit |-> TRUE, LLM |-> "none", MaxRetries |-> 0,
               TestCmd |-> ""]
    /\ runPrompt = <<>>
    /\ isRepo = FALSE
    /\ gitRepo = FALSE
    /\ cpc = "idle"
    /\ cres = NewRunResult
    /\ cerr = "nil"
    /\ responseText = ""
    /\ events = <<>>
    /\ repo0 = NewRepo

\* every unit but those of keep is not in use
IdleUnits(keep) ==
    /\ IF "genMsg" \in keep THEN TRUE ELSE genMsg = [pc |-> "idle"]
    /\ IF "send" \in keep THEN TRUE
        ELSE sp = "idle" /\ attempt = 0 /\ sendErr = "nil"
             /\ response = NewStreamResponse /\ streamLeft = 0
             /\ tokenCh = NewChan /\ resultCh = NewChan
             /\ consumerPc = "idle" /\ resp = <<>> /\ sendCtxDone = FALSE
             /\ outcomes = <<>> /\ delays = <<>> /\ resultSent = 0
             /\ drained = 0 /\ chanPanic = FALSE
    /\ IF "extract" \in keep THEN TRUE
        ELSE disk = [f \in WalkFiles |-> [modTime |-> 1, content |-> "v1", readable |-> TRUE]]
             /\ symCache = [f \in WalkFiles |-> NoEntry]
             /\ extractStats = NewExtractStats /\ walkPc = "unused"
             /\ walkTodo = <<>> /\ allSymbols = <<>>
             /\ walkLog = [f \in WalkFiles |-> "none"]
    /\ IF "rendering" \in keep THEN TRUE
        ELSE rendering = [pc |-> "idle"]
    /\ IF "graphing" \in keep THEN TRUE
        ELSE graphing = [pc |-> "idle"]
    /\ IF "ranking" \in keep THEN TRUE
        ELSE ranking = [pc |-> "idle"]
    /\ IF "formatting" \in keep THEN TRUE
        ELSE formatting = [pc |-> "idle"]
    /\ IF "scan" \in keep THEN TRUE
        ELSE scanPaths = <<>> /\ concurrency = 0 /\ jobsCh = NewChan
             /\ resultsCh = NewChan /\ wg = 0 /\ scanPc = "idle"
             /\ scanTodo = <<>> /\ wpc = <<>> /\ holding = <<>>
             /\ closerPc = "none" /\ scanFiles = {} /\ parsedBy = <<>>
             /\ consumed = <<>> /\ scanPanic = FALSE

IdleLater == IdleParse /\ IdleGit /\ IdleCoder /\ IdleUnits({})

\* Run has been called: maxRetries defaulted, result allocated, the initial
\* Verify about to start
InitLoop ==
    /\ cfgMaxRetries \in 0..MaxCfgRetries
    /\ testCmd \in {"", "go test ./..."}
    /\ initialFiles \in SeqsUpTo(FileNames, MaxFileList)
    /\ ctxDone = FALSE
    /\ pc = "build"
    /\ site = "initial"
    /\ i = 0
    /\ maxRetries = (IF cfgMaxRetries = 0 THEN defaultMaxRetries
                     ELSE cfgMaxRetries)
    /\ vr = NewVerifyResult
    /\ result = [Success |-> FALSE, Retries |-> 0,
                 FinalResult |-> NewVerifyResult,
                 ModifiedFiles |-> initialFiles]
    /\ err = "nil"
    /\ cmdLog = <<>>
    /\ retryCalls = 0
    /\ verifyHist = <<>>
    /\ cancelAt = "never"
    /\ firstSeen = FirstSeen(initialFiles)
    /\ IdleMatch /\ IdleEdit /\ IdleRouter /\ IdleLater

NextLoop ==
    \/ VerifyBuild
    \/ VerifyVet
    \/ VerifyTest
    \/ VerifyReturns
    \/ LoopExhausted
    \/ LoopCancelled
    \/ LoopBody
    \/ RetryFnFails
    \/ RetryFnReturns
    \/ Cancel

SpecLoop == InitLoop /\ [][NextLoop]_vars

\* Every command and retryFn return (commands run under a timeout), so Run
\* keeps taking steps; the caller is free never to cancel.
RunSteps ==
    \/ VerifyBuild
    \/ VerifyVet
    \/ VerifyTest
    \/ VerifyReturns
    \/ LoopExhausted
    \/ LoopCancelled
    \/ LoopBody
    \/ RetryFnFails
    \/ RetryFnReturns

SpecLoopFair == InitLoop /\ [][NextLoop]_vars /\ WF_vars(RunSteps)

\* matcher inputs: Apply hands findMatch a non-empty search text
InitMatch ==
    /\ mContent \in Strings(MaxContentLen)
    /\ mSearch \in Strings(MaxSearchLen) \ {<<>>}
    /\ mExact = NotRun
    /\ mWs = NotRun
    /\ mFuzzy = NotRun
    /\ mFind = NotRun
    /\ IdleLoop /\ IdleRouter /\ IdleLater
    /\ fs = [p \in Paths |-> NoFile]
    /\ temps = {}
    /\ fuzzyThreshold \in Thresholds
    /\ edit = NoEdit
    /\ pre = [p \in Paths |-> NoFile]
    /\ res = NoOutcome
    /\ calls = 0

NextMatch ==
    \/ RunExact
    \/ RunWhitespace
    \/ RunFuzzy
    \/ RunFindMatch

SpecMatch == InitMatch /\ [][NextMatch]_vars

\* a workspace in which cfg.txt is absent or holds any bounded content, and
\* no temp file
InitApply ==
    /\ \E f \in {NoFile} \cup {File(c) : c \in Strings(MaxContentLen)} :
         fs = [p \in Paths |-> IF p = "cfg.txt" THEN f ELSE NoFile]
    /\ temps = {}
    /\ fuzzyThreshold \in Thresholds
    /\ edit = NoEdit
    /\ pre = fs
    /\ res = NoOutcome
    /\ calls = 0
    /\ IdleLoop /\ IdleMatch /\ IdleRouter /\ IdleLater

NextApply ==
    \/ ApplyCall
    \/ ApplyAgain

SpecApply == InitApply /\ [][NextApply]_vars

\* ApplyAll has been called with a list of nEdits edits
InitRouter ==
    /\ \E f, g \in {NoFile, File(<<"a">>), File(<<"a", "\n">>)} :
         fs = [p \in Paths |-> IF p = "cfg.txt" THEN f ELSE g]
    /\ temps = {}
    /\ fuzzyThreshold = defaultFuzzyThresholdPct
    /\ edit = NoEdit
    /\ pre = fs
    /\ res = NoOutcome
    /\ calls = 0
    /\ rpc = "loop"
    /\ nEdits \in 0..MaxEdits
    /\ idx = 0
    /\ applied = <<>>
    /\ errors = <<>>
    /\ IdleLoop /\ IdleMatch /\ IdleLater

NextRouter ==
    \/ RouterApply
    \/ RouterReturn

SpecRouter == InitRouter /\ [][NextRouter]_vars

\* Parse has been called with a response of at most MaxRespLines lines
InitParse ==
    /\ respLines \in SeqsUpTo(RespLineSet, MaxRespLines) \ {<<>>}
    /\ serEdits = <<>>
    /\ ppc = "begin"
    /\ li = 0
    /\ searchIdx = -1
    /\ filePath = ""
    /\ searchText = <<"">>
    /\ replaceText = <<"">>
    /\ reasoning = <<"">>
    /\ parseResult = NewParseResult
    /\ parseRet = NotReturned
    /\ IdleLoop /\ IdleMatch /\ IdleEdit /\ IdleRouter /\ IdleGit /\ IdleCoder
    /\ IdleUnits({})

NextParse ==
    \/ ParseBegin
    \/ ScanBlock
    \/ CollectSearch
    \/ CollectReplace
    \/ ParseReturn

SpecParse == InitParse /\ [][NextParse]_vars

\* Parse has been called with the serialization of one or two edits
InitRoundTrip ==
    /\ serEdits \in {<<e>> : e \in SerEdits}
                    \cup {<<d, e>> : d \in SerEdits, e \in SerEdits}
    /\ respLines = Serialize(serEdits)
    /\ ppc = "begin"
    /\ li = 0
    /\ searchIdx = -1
    /\ filePath = ""
    /\ searchText = <<"">>
    /\ replaceText = <<"">>
    /\ reasoning = <<"">>
    /\ parseResult = NewParseResult
    /\ parseRet = NotReturned
    /\ IdleLoop /\ IdleMatch /\ IdleEdit /\ IdleRouter /\ IdleGit /\ IdleCoder
    /\ IdleUnits({})

SpecRoundTrip == InitRoundTrip /\ [][NextParse]_vars

\* a repository just initialised, and a Repo opened on it with any Config
InitGit ==
    /\ repo = NewRepo
    /\ gitCfg \in [AutoCommit : BOOLEAN, DirtyCommit : BOOLEAN]
    /\ gitLast = NoGitCall(NewRepo)
    /\ IdleLoop /\ IdleMatch /\ IdleEdit /\ IdleRouter /\ IdleParse /\ IdleCoder
    /\ IdleUnits({})

NextGit ==
    \/ GitWrite
    \/ GitStage
    \/ ForeignCommit
    \/ HandleDirtyCall
    \/ AutoCommitCall
    \/ UndoCall

SpecGit == InitGit /\ [][NextGit]_vars

\* Run has been called: with or without git, in a directory that is a
\* repository or not, with a Prompter, a client or neither
InitCoder ==
    /\ deps \in [NoGit : BOOLEAN, LLM : {"prompter", "client", "none"},
                 MaxRetries : 1..MaxCoderRetries,
                 TestCmd : {"go test ./..."}]
    /\ runPrompt \in Prompts
    /\ isRepo \in BOOLEAN
    /\ deps.NoGit => isRepo
    /\ repo \in (IF isRepo /\ ~deps.NoGit THEN CoderRepos ELSE {NewRepo})
    /\ repo0 = repo
    /\ gitCfg = [AutoCommit |-> TRUE, DirtyCommit |-> TRUE]
    /\ gitLast = NoGitCall(repo)
    /\ gitRepo = FALSE
    /\ cpc = "start"
    /\ cres = NewRunResult
    /\ cerr = "nil"
    /\ responseText = ""
    /\ events = <<>>
    /\ IdleLoop /\ IdleMatch /\ IdleEdit /\ IdleRouter /\ IdleParse
    /\ IdleUnits({})

NextCoder ==
    \/ CoderGit
    \/ CoderGenerate
    \/ CoderParseApply
    \/ VerifyBuild
    \/ VerifyVet
    \/ VerifyTest
    \/ VerifyReturns
    \/ LoopExhausted
    \/ LoopCancelled
    \/ LoopBody
    \/ CoderRetryFn
    \/ CoderAfterLoop
    \/ CoderCancel

SpecCoder == InitCoder /\ [][NextCoder]_vars

AllIdle == IdleLoop /\ IdleMatch /\ IdleEdit /\ IdleRouter /\ IdleParse
                /\ IdleGit /\ IdleCoder

\* GenerateMessage is about to be called with any prompt and file list
InitMessage ==
    /\ genMsg \in [pc : {"call"}, prompt : MsgPrompts, files : GitFileLists,
                    msg : {<<>>}]
    /\ AllIdle /\ IdleUnits({"genMsg"})

NextMessage == GenerateMessageCall

SpecMessage == InitMessage /\ [][NextMessage]_vars

\* NewExtractor: an empty cache; the files as they were first written
InitExtract ==
    /\ disk \in [WalkFiles -> [modTime : {1}, content : {"v1"},
                                readable : {TRUE}]]
    /\ symCache = [f \in WalkFiles |-> NoEntry]
    /\ extractStats = NewExtractStats
    /\ walkPc = "idle"
    /\ walkTodo = <<>>
    /\ allSymbols = <<>>
    /\ walkLog = [f \in WalkFiles |-> "none"]
    /\ AllIdle /\ IdleUnits({"extract"})

NextExtract ==
    \/ ExtractAllBegin
    \/ WalkFile
    \/ ExtractAllReturn
    \/ TouchFile

SpecExtract == InitExtract /\ [][NextExtract]_vars

\* Render is about to be called with any ranking, budget and ratio; the
\* totals are those of the ranking
InitRender ==
    /\ \E ranked \in SeqsUpTo(RankedSymbols, MaxRanked), cfg \in RenderConfigs :
         rendering = [pc |-> "call", ranked |-> ranked,
                      totalFiles |-> Cardinality({ranked[k].FilePath :
                                                    k \in 1..Len(ranked)}),
                      totalSyms |-> Len(ranked), cfg |-> cfg, out |-> <<>>]
    /\ AllIdle /\ IdleUnits({"rendering"})

NextRender == RenderCall

SpecRender == InitRender /\ [][NextRender]_vars

\* BuildGraph is about to be called with the symbols of any workspace
InitGraph ==
    /\ \E name \in {"f", "_f", "Handlers"}, refs \in 0..MaxPerFile,
          defs \in [GraphFiles -> 0..MaxPerFile] :
         /\ defs["r.go"] <= 1
         /\ defs["d4.go"] <= 1
         /\ defs["d5.go"] <= 1
         /\ graphing = [pc |-> "call",
                        symbols |-> GraphSymbols(name, refs, defs),
                        out |-> <<>>]
    /\ AllIdle /\ IdleUnits({"graphing"})

NextGraph == BuildGraphCall

SpecGraph == InitGraph /\ [][NextGraph]_vars

\* Rank is about to be called on any list of distinct definitions, the
\* iteration giving any scores
InitRank ==
    /\ \E symbols \in SeqsUpTo(RankInputs, MaxDefs),
          score \in [{"a.go", "b.go"} -> {1, 2}] :
         /\ \A a, b \in 1..Len(symbols) : a # b => symbols[a] # symbols[b]
         /\ ranking = [pc |-> "call", symbols |-> symbols, score |-> score,
                       outs |-> <<>>]
    /\ AllIdle /\ IdleUnits({"ranking"})

NextRank == RankCall

SpecRank == InitRank /\ [][NextRank]_vars

\* FormatErrors is about to be called with the compile errors of a failed
\* Verify, in a process started in the workspace or elsewhere
InitFormat ==
    /\ \E errs \in SeqsUpTo([FilePath : CompilerPaths, Line : {1, 3}],
                             MaxCompileErrors),
          cwd \in {WorkspaceDir, <<"/", "home">>} :
         formatting = [pc |-> "call", errs |-> errs, cwd |-> cwd,
                       out |-> <<>>]
    /\ AllIdle /\ IdleUnits({"formatting"})

NextFormat == FormatErrorsCall

SpecFormat == InitFormat /\ [][NextFormat]_vars

\* ScanDir has collected one file or more, made its channels and started
\* its workers
InitScan ==
    /\ \E n \in 1..MaxScanFiles : scanPaths = [k \in 1..n |-> k]
    /\ concurrency \in 1..MaxWorkers
    /\ jobsCh = NewChan
    /\ resultsCh = NewChan
    /\ wg = concurrency
    /\ scanPc = "send"
    /\ scanTodo = scanPaths
    /\ wpc = [w \in 1..concurrency |-> "range"]
    /\ holding = [w \in 1..concurrency |-> 0]
    /\ closerPc = "none"
    /\ scanFiles = {}
    /\ parsedBy = [k \in 1..Len(scanPaths) |-> <<>>]
    /\ consumed = <<>>
    /\ scanPanic = FALSE
    /\ AllIdle /\ IdleUnits({"scan"})

MainSteps == MainSendJob \/ MainCloseJobs \/ MainDrain

WorkerSteps(w) == WorkerTake(w) \/ WorkerSend(w)

NextScan ==
    \/ MainSendJob
    \/ MainCloseJobs
    \/ \E w \in 1..concurrency : WorkerTake(w)
    \/ \E w \in 1..concurrency : WorkerSend(w)
    \/ CloserClose
    \/ MainDrain

SpecScan == InitScan /\ [][NextScan]_vars

\* the Go scheduler runs every goroutine that can take a step
SpecScanFair ==
    /\ SpecScan
    /\ WF_vars(MainSteps)
    /\ \A w \in 1..MaxWorkers : WF_vars(w <= concurrency /\ WorkerSteps(w))
    /\ WF_vars(CloserClose)

\* SendPrompt has made its channels and started the goroutine, the caller
\* is about to range over the tokens; the context may be cancelled already
InitSend ==
    /\ sp = "request"
    /\ attempt = 0
    /\ sendErr = "nil"
    /\ response = NewStreamResponse
    /\ streamLeft = 0
    /\ tokenCh = NewChan
    /\ resultCh = NewChan
    /\ consumerPc = "range"
    /\ resp = <<>>
    /\ sendCtxDone \in BOOLEAN
    /\ outcomes = <<>>
    /\ delays = <<>>
    /\ resultSent = 0
    /\ drained = 0
    /\ chanPanic = FALSE
    /\ AllIdle /\ IdleUnits({"send"})

ProducerSteps ==
    \/ ConverseStream
    \/ Backoff
    \/ StreamEvent
    \/ TokenSend
    \/ ConsumeStreamReturn
    \/ SendPromptError
    \/ ResultSend
    \/ ResultClose

ConsumerSteps == RangeTokens \/ ReceiveResult

NextSend ==
    \/ ConverseStream
    \/ Backoff
    \/ StreamEvent
    \/ TokenSend
    \/ ConsumeStreamReturn
    \/ SendPromptError
    \/ ResultSend
    \/ ResultClose
    \/ RangeTokens
    \/ ReceiveResult
    \/ CancelSend

SpecSend == InitSend /\ [][NextSend]_vars

\* both goroutines keep running while they can take a step: the Go
\* scheduler runs every runnable goroutine, timers fire, and a request or
\* a stream ends with the timeout of its context at the latest
SpecSendFair ==
    SpecSend /\ WF_vars(ProducerSteps) /\ WF_vars(ConsumerSteps)

----------------------------------------------------------------------------
(* Claims about feedback.Run and feedback.Verify *)

Done == pc = "done"

\* every Verify pass so far failed, retryFn never returned an error and the
\* context was never cancelled
NothingFixesIt ==
    /\ \A k \in 1..Len(verifyHist) : ~verifyHist[k]
    /\ err # "retry failed"
    /\ ~ctxDone

C1_AtReturn ==
    (Done /\ cfgMaxRetries >= 1 /\ NothingFixesIt) =>
        /\ retryCalls = cfgMaxRetries
        /\ Len(verifyHist) = cfgMaxRetries + 1
        /\ ~result.Success
        /\ result.Retries = cfgMaxRetries
        /\ err = "max retries exhausted"

\* C1: with MaxRetries = N >= 1, every Verify pass failing, retryFn never
\* failing (and the context live), Run invokes retryFn exactly N times, runs
\* Verify exactly N+1 times and then returns success=false, retries=N and the
\* "max retries" error; and Run terminates.
C1_MaxRetriesExhausted == [](C1_AtReturn) /\ <>Done

C1_Witness ==
    Done /\ cfgMaxRetries = 2 /\ NothingFixesIt /\ retryCalls = 2

\* C2: Run stops at the first successful Verify pass. A successful pass is the
\* last pass ever run; Run has then returned success=true and a nil error,
\* with retries = the number of retryFn invocations = the number of passes
\* before the successful one (0 when the initial pass succeeds).
C2_StopsAtFirstSuccess ==
    /\ \A k \in 1..Len(verifyHist) :
         verifyHist[k] =>
            /\ k = Len(verifyHist)
            /\ Done
            /\ result.Success
            /\ err = "nil"
            /\ result.Retries = k - 1
            /\ retryCalls = k - 1
    /\ result.Success =>
         (verifyHist # <<>> /\ verifyHist[Len(verifyHist)])
    /\ retryCalls <= Len(verifyHist)

C2_Witness ==
    Done /\ result.Success /\ Len(verifyHist) = 2 /\ retryCalls = 1

SuspensionPoints == {"build", "vet", "test", "retryFn"}

\* C3: if the context is cancelled at a suspension point of Run (during a
\* Verify command or inside retryFn, in any iteration), Run returns
\* success=false, an error reporting the cancellation (Run's own "context
\* canceled", or retryFn's error, which then wraps the context's error) and
\* retries = the number of retries performed.
C3_CancellationReported ==
    (Done /\ cancelAt \in SuspensionPoints) =>
        /\ ~result.Success
        /\ err \in {"context canceled", "retry failed"}
        /\ result.Retries = retryCalls

\* C4: the modified-files list Run returns holds every path handed to Run or
\* returned by retryFn exactly once, at the position of its first appearance.
C4_ModifiedFilesFirstSeen ==
    Done => result.ModifiedFiles = firstSeen

VerifyComplete == pc \notin {"vet", "test"} /\ cmdLog # <<>>

IsPrefix(s, t) == Len(s) <= Len(t) /\ \A k \in 1..Len(s) : s[k] = t[k]

\* C5: a Verify pass runs build, vet, test in this order, each only if every
\* earlier stage passed (test only if configured); after a failed build
\* neither vet nor test has run, build_ok and check_ok are false and the
\* check output is empty; without a test command test_ok is true.
C5_VerifyOrdering ==
    /\ IsPrefix(cmdLog, <<"build", "vet", "test">>)
    /\ (pc = "vet" /\ cmdLog # <<>>) => vr.BuildOK
    /\ Len(cmdLog) >= 2 => vr.BuildOK
    /\ (pc = "test" /\ cmdLog # <<>>) => (vr.BuildOK /\ vr.VetOK)
    /\ Len(cmdLog) = 3 => (vr.BuildOK /\ vr.VetOK /\ testCmd # "")
    /\ (VerifyComplete /\ ~vr.BuildOK) =>
          (cmdLog = <<"build">> /\ ~vr.VetOK /\ vr.VetOut = "")
    /\ (VerifyComplete /\ testCmd = "") => vr.TestOK

C5_Witness ==
    pc = "verified" /\ ~vr.BuildOK /\ testCmd # "" /\ cmdLog = <<"build">>

\* C30: if retryFn returns an error in its i-th invocation, Run returns at
\* once with success=false, retries=i and the error of the retry; the list of
\* modified files is the one accumulated before that invocation, FinalResult
\* is the last Verify result, and no Verify pass or invocation follows (i
\* invocations and i passes have taken place).
C30_RetryErrorEndsRun ==
    /\ [](err = "retry failed" =>
            /\ Done
            /\ ~result.Success
            /\ result.Retries = retryCalls
            /\ result.FinalResult = vr
            /\ Len(verifyHist) = retryCalls)
    /\ [][(pc = "retryFn" /\ err' = "retry failed") =>
            /\ pc' = "done"
            /\ retryCalls' = retryCalls + 1
            /\ result' = result
            /\ verifyHist' = verifyHist]_vars

\* the second invocation of retryFn failed, after files had been gathered
C30_Witness ==
    /\ Done
    /\ err = "retry failed"
    /\ retryCalls = 2
    /\ Len(result.ModifiedFiles) = 2

----------------------------------------------------------------------------
(* Claims about TextEditor.Apply, under SpecApply *)

Target == edit.FilePath

\* C6: whenever Apply returns an error (invalid edit, create of an existing
\* file, no stage matching, a failing step of the atomic write), the files
\* hold what they held before the call and no temp file is left behind
C6_ErrorLeavesFileUntouched ==
    (calls >= 1 /\ res.status = "error") => (fs = pre /\ temps = {})

\* the rename, the last step of atomicWrite, failed on an existing file
C6_Witness ==
    /\ calls = 1
    /\ res.status = "error"
    /\ res.err = "renaming temp file"
    /\ IsReplace(edit)
    /\ pre[Target].exists
    /\ pre[Target].data # <<>>

\* search occurs in content at offset k
OccursAt(content, search, k) ==
    /\ k + Len(search) <= Len(content)
    /\ Slice(content, k, k + Len(search)) = search

\* C8: a successful replace edit changes only the matched range: the file
\* holds content[:start] + new_text + content[end:] afterwards, the other
\* files are untouched, and at the Exact stage [start,end) is the first
\* occurrence of old_text
C8_ReplaceChangesOnlyMatch ==
    (calls >= 1 /\ res.status = "ok" /\ IsReplace(edit)) =>
      LET content == pre[Target].data
          m == res.match
          after == fs[Target].data
      IN /\ 0 <= m.start /\ m.start <= m.end /\ m.end <= Len(content)
         /\ fs[Target].exists
         /\ Len(after) = Len(content) - (m.end - m.start) + Len(edit.NewContent)
         /\ \A k \in 1..m.start : after[k] = content[k]
         /\ \A k \in 1..Len(edit.NewContent) :
               after[m.start + k] = edit.NewContent[k]
         /\ \A k \in 1..(Len(content) - m.end) :
               after[m.start + Len(edit.NewContent) + k] = content[m.end + k]
         /\ \A p \in Paths \ {Target} : fs[p] = pre[p]
         /\ m.stage = "exact" =>
               /\ OccursAt(content, edit.OldContent, m.start)
               /\ m.end = m.start + Len(edit.OldContent)
               /\ \A k \in 0..(m.start - 1) :
                     ~OccursAt(content, edit.OldContent, k)

\* the first of two occurrences of old_text was replaced, the later one kept
C8_Witness ==
    /\ calls = 1
    /\ res.status = "ok"
    /\ IsReplace(edit)
    /\ res.match.stage = "exact"
    /\ pre[Target].data = <<"a", " ", "a">>
    /\ edit.OldContent = <<"a">>
    /\ edit.NewContent = <<"\n">>
    /\ fs[Target].data = <<"\n", " ", "a">>

\* C9 as stated: the same replace edit applied a second time fails and
\* leaves the file unchanged
C9_SecondApplyFails ==
    (calls = 2 /\ IsReplace(edit)) => (res.status = "error" /\ fs = pre)

\* some stage of the matcher accepts search somewhere in content
Occurs(content, search) ==
    \E k \in 0..Len(content) : OccursAt(content, search, k)

WsAccepts(content, search) ==
    LET normSearchLines == normalizeLines(search)
        contentLines == Split(content)
    IN /\ Len(normSearchLines) > 0
       /\ \E w \in 0..(Len(contentLines) - Len(normSearchLines)) :
            \A j \in 1..Len(normSearchLines) :
               normalizeLine(contentLines[w + j]) = normSearchLines[j]

FuzzyAccepts(content, search, threshold) ==
    /\ content # <<>>
    /\ search # <<>>
    /\ LET contentLines == Split(content)
           searchLen == Len(Split(search))
       IN IF searchLen > Len(contentLines)
          THEN SimAtLeast(similarity(content, search), threshold)
          ELSE \E w \in 0..(Len(contentLines) - searchLen) :
                 SimAtLeast(
                   similarity(Join(SubSeq(contentLines, w + 1, w + searchLen)),
                              search),
                   threshold)

StillAccepted(content, search, threshold) ==
    \/ Occurs(content, search)
    \/ WsAccepts(content, search)
    \/ FuzzyAccepts(content, search, threshold)

\* C9 (amended): the second application of a replace edit fails, leaving the
\* file unchanged, when no stage accepts old_text in the file the first
\* application left; when a stage still accepts old_text (a later occurrence,
\* or the text the first application wrote) no Diagnostic is returned; and
\* whenever the second application does not succeed the file is unchanged
C9_SecondApplyFailsUnlessStillMatched ==
    (calls = 2 /\ IsReplace(edit)) =>
      LET accepted == StillAccepted(pre[Target].data, edit.OldContent,
                                    fuzzyThresholdOf(fuzzyThreshold))
      IN /\ ~accepted => (res.status = "error" /\ fs = pre)
         /\ accepted => res.err # "no match"
         /\ res.status # "ok" => fs = pre

\* the second application found nothing to match
C9_Witness ==
    /\ calls = 2
    /\ IsReplace(edit)
    /\ res.status = "error"
    /\ res.err = "no match"
    /\ fs = pre
    /\ pre[Target].data # <<>>

\* C11: whenever the Exact stage fails and a run of lines of the file equals
\* the search lines after whitespace normalization, Apply matches at stage
\* WhitespaceNormalized with similarity 1.0, inside the content
\* (0 <= start <= end <= len(content)), whether or not the window is the
\* last line of the file and whether or not the file ends with a newline
C11_WhitespaceMatchInRange ==
    (/\ calls = 1
     /\ IsReplace(edit)
     /\ pre[Target].exists
     /\ ~Occurs(pre[Target].data, edit.OldContent)
     /\ WsAccepts(pre[Target].data, edit.OldContent)
     /\ res.err # "reading") =>
        /\ res.status # "panic"
        /\ res.err # "no match"
        /\ res.match.stage = "whitespace_normalized" =>
              /\ res.match.similarity = <<1, 1>>
              /\ 0 <= res.match.start
              /\ res.match.start <= res.match.end
              /\ res.match.end <= Len(pre[Target].data)

----------------------------------------------------------------------------
(* Claims about Router.ApplyAll, under SpecRouter *)

\* the call of ApplyAll is over, by return or by panic
ApplyAllOver == rpc \in {"returned", "panicked"}

IsIncreasing(s) == \A j, k \in 1..Len(s) : j < k => s[j].index < s[k].index

\* C7: ApplyAll attempts every edit once, in list order, whatever failed
\* before: applied results plus recorded errors number the edits, both lists
\* are in list order, and a failed edit leaves the files as the earlier edits
\* left them
C7_EveryEditAttempted ==
    /\ ApplyAllOver =>
         /\ idx = nEdits
         /\ Len(applied) + Len(errors) = nEdits
         /\ IsIncreasing(applied)
         /\ IsIncreasing(errors)
    /\ (idx >= 1 /\ res.status # "ok") => fs = pre

----------------------------------------------------------------------------
(* Claims about the matcher stages, under SpecMatch *)

AllStagesRun == mExact # NotRun /\ mWs # NotRun /\ mFuzzy # NotRun

SameRange(m, n) == n.found /\ n.start = m.start /\ n.end = m.end

\* C10 as stated: when the Exact stage matches, the Whitespace-Normalized
\* stage and the Fuzzy stage yield the same byte range
C10_LaterStagesSameRange ==
    (AllStagesRun /\ mExact.found) =>
        (SameRange(mExact, mWs) /\ SameRange(mExact, mFuzzy))

\* C10 (amended): when the Exact stage matches, findMatch yields the Exact
\* stage's range, which holds the search text; the later stages are not
\* consulted
C10_ExactRangeWins ==
    (mExact # NotRun /\ mFind # NotRun /\ mExact.found) =>
        /\ mFind = mExact
        /\ mFind.stage = "exact"
        /\ OccursAt(mContent, mSearch, mFind.start)
        /\ mFind.end = mFind.start + Len(mSearch)

\* Exact matched and the Whitespace-Normalized stage, run on its own, found
\* another range
C10_Witness ==
    /\ AllStagesRun
    /\ mFind # NotRun
    /\ mExact.found
    /\ mWs.found
    /\ ~SameRange(mExact, mWs)

----------------------------------------------------------------------------
(* Claims about editformat.Parse, under SpecParse and SpecRoundTrip *)

\* C12: on every response on which Parse returns a result,
\* blocks_found = blocks_parsed + |parse_errors| and |edits| = blocks_parsed;
\* while a block is open it is the one block not yet counted
C12_BlocksAccounted ==
    LET settled == parseResult.BlocksParsed + Len(parseResult.ParseErrors)
    IN /\ Len(parseResult.Edits) = parseResult.BlocksParsed
       /\ ppc \in {"search", "replace"} =>
             parseResult.BlocksFound = settled + 1
       /\ ppc \in {"scan", "returned"} => parseResult.BlocksFound = settled
       /\ (parseRet.returned /\ parseRet.hasResult) =>
             parseResult.BlocksFound = settled

\* a result with two blocks opened: one gave an edit, one a parse error
C12_Witness ==
    /\ parseRet.returned
    /\ parseRet.hasResult
    /\ parseResult.BlocksFound = 2
    /\ Len(parseResult.Edits) = 1
    /\ Len(parseResult.ParseErrors) = 1

\* a line of the response is a SEARCH marker
BlockOpened ==
    \E k \in 1..Len(respLines) : isMarker(respLines[k], markerSearch)

\* C13: Parse returns the NoEditsFound error and no result exactly when the
\* input trims to empty or no block was opened; otherwise it returns a
\* result and no error, the malformed blocks collected as parse errors
C13_NoEditsFoundExactly ==
    parseRet.returned =>
       IF TrimsToEmpty(respLines) \/ ~BlockOpened
       THEN /\ parseRet.err = "NoEditsFound"
            /\ ~parseRet.hasResult
            /\ parseResult.BlocksFound = 0
       ELSE /\ parseRet.err = "nil"
            /\ parseRet.hasResult
            /\ parseResult.BlocksFound >= 1

\* every opened block was malformed, and Parse returned a result
C13_Witness ==
    /\ parseRet.returned
    /\ parseRet.hasResult
    /\ parseRet.err = "nil"
    /\ parseResult.BlocksParsed = 0
    /\ Len(parseResult.ParseErrors) = 2

\* C14: parsing the serialization of a list of edits whose old_text and
\* new_text are empty or end with a newline yields the same edits, in the
\* same order
C14_RoundTrip ==
    (parseRet.returned /\ serEdits # <<>>) =>
        /\ parseRet.hasResult
        /\ parseResult.Edits = serEdits

----------------------------------------------------------------------------
(* Claims about internal/git, under SpecGit *)

\* the errors of HandleDirty and Undo that come from a failing go-git call
GitCallFailures ==
    {"getting status", "staging dirty files", "committing dirty files",
     "getting HEAD", "resetting to parent"}

\* the last Repo call was op and none of the go-git calls it made failed
Completed(op) == gitLast.op = op /\ gitLast.err \notin GitCallFailures

\* the messages GenerateMessage returns
GeneratedMessages ==
    {GenerateMessage(prompt, files).msg :
        prompt \in {q \in Prompts : ~GenerateMessage(q, <<>>).panic},
        files \in GitFileLists}

\* HEAD and the history behind it are those of r without its last commit
HeadAtParentOf(r) == repo.commits = SubSeq(r.commits, 1, Len(r.commits) - 1)

\* C19 as stated: Undo succeeds, moving HEAD to its first parent and keeping
\* the working tree, when HEAD carries a message produced by GenerateMessage;
\* on any other message it returns NotOwnCommit and HEAD, the history and the
\* working tree are unchanged.
C19_UndoIffGenerated ==
    Completed("Undo") =>
        LET p == gitLast.pre IN
        IF p.commits[Len(p.commits)].Message \in GeneratedMessages
        THEN /\ gitLast.err = "nil"
             /\ HeadAtParentOf(p)
             /\ repo.work = p.work
        ELSE /\ gitLast.err = ErrNotGoCoderCommit
             /\ repo = p

\* C19 amended: Undo goes by the trailer and by HEAD having a parent.  Every
\* message produced by GenerateMessage contains the trailer.  When the
\* message of HEAD contains the trailer and HEAD has a parent, Undo succeeds,
\* moving HEAD to the first parent and keeping the working tree (and the
\* index); when it contains the trailer and HEAD is the root commit, Undo
\* fails; when it does not contain the trailer, Undo returns NotOwnCommit;
\* a failed Undo leaves HEAD, the history and the working tree unchanged.
C19_UndoIffTrailerAndParent ==
    Completed("Undo") =>
        LET p == gitLast.pre IN
        /\ p.commits[Len(p.commits)].Message \in GeneratedMessages
              => IsGoCoderCommit(p)
        /\ IF IsGoCoderCommit(p) /\ Len(p.commits) > 1
           THEN /\ gitLast.err = "nil"
                /\ HeadAtParentOf(p)
                /\ repo.work = p.work
                /\ repo.index = p.index
           ELSE /\ gitLast.err =
                     (IF IsGoCoderCommit(p)
                      THEN "cannot undo: HEAD is the initial commit"
                      ELSE ErrNotGoCoderCommit)
                /\ repo = p

\* Undo has taken back a generated commit that had a parent, with the
\* worktree changed since
C19_Witness ==
    /\ Completed("Undo")
    /\ gitLast.err = "nil"
    /\ Len(gitLast.pre.commits) = 2
    /\ gitLast.pre.commits[2].Message \in GeneratedMessages
    /\ gitLast.pre.work # gitLast.pre.commits[2].tree
    /\ Len(repo.commits) = 1

\* C20: HandleDirty (its go-git calls succeeding) has three outcomes.  On a
\* clean worktree it returns nil and creates no commit; on a dirty worktree
\* with DirtyCommit it creates exactly one commit, with the fixed save
\* message and all pending changes, and the worktree is clean afterwards; on
\* a dirty worktree without DirtyCommit it returns DirtyWorktree and creates
\* no commit.
C20_HandleDirtyOutcomes ==
    Completed("HandleDirty") =>
        LET p == gitLast.pre IN
        IF ~IsDirty(p)
        THEN gitLast.err = "nil" /\ repo = p
        ELSE IF gitCfg.DirtyCommit
        THEN /\ gitLast.err = "nil"
             /\ repo.commits =
                    Append(p.commits,
                           [Message |-> dirtyCommitMsg, tree |-> p.work])
             /\ repo.work = p.work
             /\ ~IsDirty(repo)
        ELSE /\ gitLast.err = ErrDirtyWorkTree
             /\ repo = p

\* HandleDirty has committed staged and unstaged changes on top of a commit
C20_Witness ==
    /\ Completed("HandleDirty")
    /\ gitLast.err = "nil"
    /\ gitLast.pre.index # HeadTree(gitLast.pre)
    /\ gitLast.pre.work # gitLast.pre.index
    /\ Len(gitLast.pre.commits) = 1
    /\ Len(repo.commits) = 2
    /\ repo.commits[2].Message = dirtyCommitMsg

----------------------------------------------------------------------------
(* Claims about Runner.Run, under SpecCoder *)

RunReturned == cpc = "returned"

\* Parse found no edit block in the first response
NoEditsInFirstResponse ==
    /\ pc = "idle"
    /\ "parse" \in Range(events)
    /\ ParseErr(responseText) # "nil"

\* one of the terminal conditions has ended the run: an LLM failure, no edit
\* block in the first response, retries exhausted, cancellation
TerminalCondition ==
    \/ "llm failed" \in Range(events)
    \/ NoEditsInFirstResponse
    \/ err = "max retries exhausted"
    \/ err = "context canceled"

\* C15: every terminal condition of Run (an LLM failure, no edit block in
\* the first response, retries exhausted, cancellation) reaches the caller
\* as a non-nil error, with a Result that holds the progress made: the
\* retries and the modified files of the feedback loop, if it ran.
C15_TerminalConditionsReturned ==
    (RunReturned /\ TerminalCondition) =>
        /\ cerr # "nil"
        /\ pc = "done" => /\ cres.Retries = result.Retries
                          /\ cres.ModifiedFiles = result.ModifiedFiles

\* C16: when the request fails inside the client, Run does not go on to
\* parse or apply a response, and the error it returns is the LLM failure.
C16_LLMFailureSurfaced ==
    (deps.LLM = "client" /\ "llm failed" \in Range(events)) =>
        /\ events[Len(events)] = "llm failed"
        /\ RunReturned => cerr = "LLM call failed"

\* C17: whenever Run returns a Result with Success = true, its Errors are
\* empty, whatever edits applied or failed in the first response and in the
\* retries.
C17_SuccessMeansNoErrors ==
    (RunReturned /\ cres.Success) => cres.Errors = <<>>

\* the commits made since Run was called
AddedCommits == SubSeq(repo.commits, Len(repo0.commits) + 1, Len(repo.commits))

\* the positions of an event in the history
EventAt(e) == {k \in 1..Len(events) : events[k] = e}

\* C18: with a repository present, the commits of Run are ordered around the
\* edits.  The dirty changes Run found are committed, all of them and with
\* the fixed save message, before any edit is written; an auto-commit is
\* made only after a Verify pass has succeeded, as the last thing Run does;
\* a run that ends with Success = false has made no auto-commit.  Without a
\* repository no commit is made.
C18_CommitsAroundEdits ==
    /\ SubSeq(repo.commits, 1, Len(repo0.commits)) = repo0.commits
    /\ ~gitRepo => AddedCommits = <<>> /\ EventAt("auto") = {}
    /\ \A k \in EventAt("save"), j \in EventAt("edit") : k < j
    /\ (gitRepo /\ IsDirty(repo0) /\ EventAt("edit") # {}) =>
          /\ EventAt("save") # {}
          /\ AddedCommits # <<>>
          /\ AddedCommits[1] =
                [Message |-> dirtyCommitMsg, tree |-> repo0.work]
    /\ EventAt("auto") # {} =>
          /\ EventAt("auto") = {Len(events)}
          /\ verifyHist # <<>> /\ verifyHist[Len(verifyHist)]
          /\ RunReturned /\ cres.Success
          /\ IsGoCoderCommit(repo)
    /\ (RunReturned /\ ~cres.Success) =>
          /\ EventAt("auto") = {}
          /\ \A k \in 1..Len(AddedCommits) :
                AddedCommits[k].Message = dirtyCommitMsg

\* a run that saved the dirty changes, wrote edits, failed the first Verify
\* pass, passed after a retry and made the auto-commit
C18_Witness ==
    /\ RunReturned
    /\ cres.Success
    /\ cres.Retries = 1
    /\ IsDirty(repo0)
    /\ EventAt("save") # {} /\ EventAt("edit") # {} /\ EventAt("auto") # {}
    /\ Len(AddedCommits) = 2

(***************************************************************************)
(* Claims about GenerateMessage                                            *)
(***************************************************************************)

\* the subject before buildSubject cuts it
UntruncatedSubject(prompt) ==
    LET trimmed == TrimSpace(prompt)
    IN <<inferCommitType(prompt), ": ">>
         \o TrimRightDots(<<ToLowerPiece(Head(trimmed))>> \o Tail(trimmed))

CommitTypePrefixes == {commitTypes[k].prefix : k \in 1..Len(commitTypes)}

EndsWithDots(line) ==
    Len(line) >= 3 /\ SubSeq(line, Len(line) - 2, Len(line)) = <<".", ".", ".">>

\* C27: for every task prompt and file list GenerateMessage produces a
\* message whose first line has the form "<type>: <summary>", is at most 72
\* characters long, and ends with "..." exactly when the untruncated subject
\* would be longer than 72 characters.
C27_SubjectLine ==
    genMsg.pc \in {"done", "panic"} =>
        /\ genMsg.pc = "done"
        /\ LET first == genMsg.msg[1]
           IN /\ Len(first) >= 3
              /\ first[1] \in CommitTypePrefixes
              /\ first[2] = ": "
              /\ ByteLen(first) <= maxSubjectLength
              /\ EndsWithDots(first)
                   <=> ByteLen(UntruncatedSubject(genMsg.prompt))
                            > maxSubjectLength


(***************************************************************************)
(* Claims about SendPrompt                                                 *)
(***************************************************************************)

\* the errors of sendWithRetry, all wrapping ErrLLMFailure
LLMFailures == {"rate limited", "api error", "cancelled during retry"}

\* sendWithRetry has returned an error to SendPrompt
SendFailed ==
    sp \in {"errClose", "result", "closeResult", "exit"}
        /\ sendErr \in LLMFailures

LastOutcome == outcomes[Len(outcomes)]

\* C21: a prompt send retries only after a throttling error and at most 3
\* times, after waits of 1s, 2s and 4s; any other API error fails the call
\* at once; a throttled third retry fails it with an LLM failure; a
\* cancellation during a backoff wait ends the call without a further
\* request.
C21_RetryPolicy ==
    /\ [](/\ Len(outcomes) <= maxRetryAttempts + 1
          /\ \A k \in 1..(Len(outcomes) - 1) : outcomes[k] = "throttle"
          /\ delays = SubSeq(<<1, 2, 4>>, 1, Len(delays))
          /\ Len(outcomes) <= Len(delays) + 1
          /\ (sp = "request" /\ outcomes # <<>>)
                => Len(delays) = Len(outcomes)
          /\ (outcomes # <<>> /\ LastOutcome = "error")
                => SendFailed /\ sendErr = "api error"
          /\ (Len(outcomes) = maxRetryAttempts + 1
                    /\ LastOutcome = "throttle")
                => SendFailed /\ sendErr = "rate limited"
          /\ sendErr = "cancelled during retry"
                => SendFailed /\ Len(outcomes) = Len(delays) + 1)
    /\ [][(sp = "backoff" /\ sendCtxDone /\ sp' # sp)
            => /\ sp' = "errClose"
               /\ sendErr' = "cancelled during retry"
               /\ outcomes' = outcomes
               /\ delays' = delays]_vars

C21_Witness ==
    /\ outcomes = <<"throttle", "throttle", "throttle", "throttle">>
    /\ delays = <<1, 2, 4>>
    /\ sp = "exit"

\* C28: whatever the outcome of SendPrompt and the interleaving of producer
\* and consumer, no send or close hits a closed channel, the token channel
\* is closed once, one StreamResponse is put on the result channel before
\* that channel is closed, and the consumer that drains the tokens and then
\* receives the result gets that response and returns.
C28_ChannelProtocol ==
    /\ [](/\ ~chanPanic
          /\ resultSent <= 1
          /\ resultCh.closed => (resultSent = 1 /\ tokenCh.closed)
          /\ consumerPc # "no response"
          /\ consumerPc = "returned"
                => /\ Len(resp) = 1
                   /\ tokenCh = [buf |-> <<>>, closed |-> TRUE]
                   /\ drained <= resp[1].FullText)
    /\ <>[](sp = "exit" /\ tokenCh.closed /\ resultCh.closed)
    /\ <>[](consumerPc = "returned")

C28_Witness ==
    /\ consumerPc = "returned"
    /\ sp = "exit"
    /\ sendCtxDone
    /\ drained = 1
    /\ resp[1] = [FullText |-> 2, Retries |-> 1]

(***************************************************************************)
(* Claims about the symbol cache                                           *)
(***************************************************************************)

\* the number of files the walk has logged as did
Logged(did) == Cardinality({f \in WalkFiles : walkLog[f] = did})

\* the walk visits, and does not stop at, the supported file f
Visits(f) ==
    /\ walkPc = "walking" /\ walkTodo # <<>> /\ Head(walkTodo) = f
    /\ Supported(f)
    /\ walkTodo' = Tail(walkTodo)

\* C22: a cache entry is a hit iff its stored modification time equals the
\* current one of the file.  On a hit the file is not parsed and the cached
\* symbols are returned; on a miss the file, when it can be read, is parsed
\* and its entry replaced.  In every ExtractAll each processed file counts
\* as one cache hit or as one parse.
C22_CacheHitIffSameTime ==
    /\ [](/\ extractStats.CacheHits = Logged("hit")
          /\ extractStats.ParseCount = Logged("parse")
          /\ extractStats.FilesProcessed
                = extractStats.CacheHits + extractStats.ParseCount
          /\ extractStats.FilesProcessed = Len(allSymbols))
    /\ [][\A f \in WalkFiles : Visits(f) =>
            IF symCache[f].present /\ symCache[f].modTime = disk[f].modTime
            THEN /\ walkLog'[f] = "hit"
                 /\ symCache' = symCache
                 /\ extractStats'.ParseCount = extractStats.ParseCount
                 /\ allSymbols'[Len(allSymbols')]
                        = [path |-> f, symbols |-> symCache[f].symbols]
            ELSE disk[f].readable =>
                 /\ walkLog'[f] = "parse"
                 /\ extractStats'.CacheHits = extractStats.CacheHits
                 /\ symCache'[f].present
                 /\ symCache'[f].modTime = disk[f].modTime
                 /\ allSymbols'[Len(allSymbols')]
                        = [path |-> f, symbols |-> symCache'[f].symbols]
                 /\ symCache'[f].symbols
                        \in {"nil", "symbols of " \o disk[f].content}]_vars

\* a walk that found one file unchanged and the other backdated
C22_Witness ==
    /\ walkPc = "returned"
    /\ walkLog = [f \in WalkFiles |->
                    IF f = "a.go" THEN "hit"
                    ELSE IF f = "b.py" THEN "parse" ELSE "skipped"]
    /\ disk["b.py"].modTime = 1
    /\ symCache["b.py"].symbols = "symbols of v2"

(***************************************************************************)
(* Claims about Render                                                     *)
(***************************************************************************)

\* the budget Render works with, in quarter tokens
EffectiveBudget4(cfg) ==
    4 * (IF cfg.TokenBudget = 0 THEN defaultTokenBudget ELSE cfg.TokenBudget)

\* C23: for every ranked symbol list and token budget Render returns the
\* sections of the first files in rank order, its TokensUsed does not exceed
\* the token budget, and the header reports the number of files and of
\* symbols that were included.
C23_WithinBudget ==
    rendering.pc = "done" =>
        LET out == rendering.out[1]
            ranked == rendering.ranked
            order == FirstSeen([k \in 1..Len(ranked) |-> ranked[k].FilePath])
        IN /\ out.Sections = SubSeq(order, 1, Len(out.Sections))
           /\ out.TokensUsed4 <= EffectiveBudget4(rendering.cfg)
           /\ out.Header.files = Len(out.Sections)
           /\ out.Header.syms
                = Cardinality({k \in 1..Len(ranked) :
                    \E j \in 1..Len(out.Sections) :
                        ranked[k].FilePath = out.Sections[j]})

(***************************************************************************)
(* Claims about BuildGraph                                                 *)
(***************************************************************************)

\* the number of symbols of the list that are of the kind, have the name
\* and lie in the file
CountIn(symbols, kind, name, file) ==
    Cardinality({k \in 1..Len(symbols) :
        symbols[k] = [Name |-> name, FilePath |-> file, Kind |-> kind]})

\* the files that define the name
DefFiles(symbols, name) ==
    {symbols[k].FilePath :
        k \in {j \in 1..Len(symbols) :
                symbols[j].Kind = "Definition" /\ symbols[j].Name = name}}

\* C25: for every symbol list BuildGraph emits one edge per (from, to,
\* symbol), a file that refers to the symbol and another that defines it,
\* with weight c * identifier_weight * commonness_weight, c being the
\* number of references to the symbol in from and commonness_weight 0.1
\* exactly when the symbol is defined in at least 5 distinct files, else 1.
C25_EdgeWeights ==
    graphing.pc = "done" =>
        LET g == graphing.out[1]
            symbols == graphing.symbols
        IN /\ \A e \in g.Edges :
                /\ e.From # e.To
                /\ e.To \in DefFiles(symbols, e.Reference)
                /\ e.Weight100
                     = CountIn(symbols, "Reference", e.Reference, e.From)
                        * identifierWeight(e.Reference)
                        * (IF Cardinality(DefFiles(symbols, e.Reference)) >= 5
                           THEN 1 ELSE 10)
           /\ \A e1 \in g.Edges, e2 \in g.Edges :
                (e1.From = e2.From /\ e1.To = e2.To
                    /\ e1.Reference = e2.Reference) => e1 = e2
           /\ \A k \in 1..Len(symbols) :
                symbols[k].Kind = "Reference" =>
                    \A to \in DefFiles(symbols, symbols[k].Name)
                                \ {symbols[k].FilePath} :
                        \E e \in g.Edges :
                            /\ e.From = symbols[k].FilePath
                            /\ e.To = to
                            /\ e.Reference = symbols[k].Name

(***************************************************************************)
(* Claims about Rank                                                       *)
(***************************************************************************)

\* a comes before b by score descending, then path, then line ascending
OrderedBefore(a, b) ==
    \/ a.Score > b.Score
    \/ a.Score = b.Score /\ PathLess(a.FilePath, b.FilePath)
    \/ a.Score = b.Score /\ a.FilePath = b.FilePath /\ a.Line < b.Line

\* C24: two calls of Rank with identical inputs return the ranked symbols
\* in the same order, by descending score, then ascending file path, then
\* ascending line, and no two symbols of the output are left unordered by
\* this tie-break.
C24_RankDeterminism ==
    ranking.pc = "done" =>
        /\ ranking.outs[1] = ranking.outs[2]
        /\ \A a, b \in 1..Len(ranking.outs[1]) :
                a < b => OrderedBefore(ranking.outs[1][a], ranking.outs[1][b])

(***************************************************************************)
(* Claims about FormatErrors                                               *)
(***************************************************************************)

\* the file lies in the workspace directory
InWorkspace(file) ==
    Len(file) > Len(WorkspaceDir)
        /\ SubSeq(file, 1, Len(WorkspaceDir)) = WorkspaceDir

\* C26: FormatErrors never reads a file outside the workspace directory,
\* for every verify result, whatever file paths its compile errors carry.
C26_ReadsInsideWorkspace ==
    formatting.pc = "done" =>
        \A file \in formatting.out[1].reads : InWorkspace(file)

(***************************************************************************)
(* Claims about ScanDir                                                    *)
(***************************************************************************)

WorkersExited == \A w \in 1..concurrency : wpc[w] = "exit"

\* C29: for every non-empty set of files, every number of workers and
\* every interleaving, each file is parsed by one worker, one result per
\* file is consumed by ScanDir, the results channel is closed only after
\* every worker has exited, nobody waits forever and ScanDir returns.
C29_WorkerPool ==
    /\ [](/\ ~scanPanic
          /\ \A k \in 1..Len(scanPaths) : Len(parsedBy[k]) <= 1
          /\ resultsCh.closed => WorkersExited
          /\ scanPc = "returned"
                => /\ \A k \in 1..Len(scanPaths) :
                        /\ Len(parsedBy[k]) = 1
                        /\ Cardinality({j \in 1..Len(consumed) :
                                            consumed[j] = k}) = 1
                   /\ Len(consumed) = Len(scanPaths)
                   /\ scanFiles = 1..Len(scanPaths))
    /\ <>[](scanPc = "returned" /\ WorkersExited /\ closerPc = "exit")

\* two workers parsed a file each and ScanDir received the second file
\* first
C29_Witness ==
    /\ scanPc = "returned"
    /\ parsedBy = <<<<1>>, <<2>>>>
    /\ consumed = <<2, 1>>

====
